---- MODULE Spec2Model ----
(***************************************************************************)
(* Model of the pipe execution engine (idestis/pipe): the DAG scheduler    *)
(* Runner.Run with its workers, the step executor runStep and its three    *)
(* run variants, the run state with resume, the step cache and the         *)
(* environment map handed to child processes.                              *)
(***************************************************************************)
EXTENDS Integers, Sequences, FiniteSets, TLC

\* ------------------------------------------------------------------ bounds

\* PIPE_MAX_PARALLEL is drawn from 1..MaxCap.
MaxCap == 2
\* Number of invocations of runPipeline (fresh runs and resumes) in a behaviour.
MaxRuns == 3
\* The clock time.Now() reads runs from 0 to MaxClock.
MaxClock == 2

\* ------------------------------------------------------------ input domains

StepIds == {"a", "b", "c"}
SubIds == {1, 2}
NL == "\n"
\* Stdout a capturing child may produce on success.
Outputs == {<<>>, <<"x", NL>>}

\* Variant of TrimRight: nothing is removed.
TrimNothing(s) == s

\* strings.TrimRight(s, "\n")
RECURSIVE TrimRight(_)
TrimRight(s) ==
    IF s = <<>> THEN <<>>
    ELSE IF s[Len(s)] = NL THEN TrimRight(SubSeq(s, 1, Len(s) - 1))
    ELSE s

\* model.Step: run variant (kind, n = number of commands / sub-runs),
\* depends_on, sensitive, cached.enabled, retry, interactive, and the set of
\* sub-runs marked sensitive; cached.expire_after is empty.
Step(kind, n, deps, sens, cached, retry, inter, subSens) ==
    [kind |-> kind, n |-> n, deps |-> deps, sensitive |-> sens,
     cached |-> cached, retry |-> retry, interactive |-> inter,
     subSens |-> subSens, expireAfter |-> ""]

\* model.CacheField{Enabled: true, ExpireAfter: expireAfter} on a step.
CachedFor(step, expireAfter) ==
    [step EXCEPT !.cached = TRUE, !.expireAfter = expireAfter]

\* Scenario C/D of the spec: a (retry 1), b depends on a, c independent.
PipeCascade ==
    [a |-> Step("single", 1, {}, FALSE, FALSE, 1, FALSE, {}),
     b |-> Step("single", 1, {"a"}, FALSE, TRUE, 0, FALSE, {}),
     c |-> Step("single", 1, {}, FALSE, FALSE, 0, FALSE, {})]

\* Two wide steps feeding a join: a is a strings list of two commands, b has
\* two sub-runs (the second sensitive), c depends on both.
PipeFan ==
    [a |-> Step("strings", 2, {}, FALSE, FALSE, 0, FALSE, {}),
     b |-> Step("subruns", 2, {}, FALSE, FALSE, 0, FALSE, {2}),
     c |-> Step("single", 1, {"a", "b"}, FALSE, FALSE, 0, FALSE, {})]

\* Scenario E with caching: a is sensitive and cached, b consumes a,
\* c is a sensitive one-command strings list.
PipeSecret ==
    [a |-> Step("single", 1, {}, TRUE, TRUE, 0, FALSE, {}),
     b |-> Step("single", 1, {"a"}, FALSE, FALSE, 0, FALSE, {}),
     c |-> Step("strings", 1, {}, TRUE, FALSE, 0, FALSE, {})]

\* An interactive step b that depends on a, beside an independent c.
PipeInteractive ==
    [a |-> Step("single", 1, {}, FALSE, FALSE, 0, FALSE, {}),
     b |-> Step("single", 1, {"a"}, FALSE, FALSE, 0, TRUE, {}),
     c |-> Step("single", 1, {}, TRUE, FALSE, 0, FALSE, {})]

\* A chain: a sensitive a, two sub-runs b after it, a cached c after b.
PipeChain ==
    [a |-> Step("single", 1, {}, TRUE, FALSE, 0, FALSE, {}),
     b |-> Step("subruns", 2, {"a"}, FALSE, FALSE, 0, FALSE, {}),
     c |-> Step("single", 1, {"b"}, FALSE, TRUE, 0, FALSE, {})]

\* No sensitive step: a strings list a, an interactive c after a and b.
PipeTerminal ==
    [a |-> Step("strings", 1, {}, FALSE, FALSE, 0, FALSE, {}),
     b |-> Step("single", 1, {}, FALSE, FALSE, 0, FALSE, {}),
     c |-> Step("single", 1, {"a", "b"}, FALSE, FALSE, 0, TRUE, {})]

\* Scenario F: a is cached for "1h", the one-sub-run step b after it is cached
\* without expiry, c is cached with an expire_after that does not parse.
PipeExpiry ==
    [a |-> CachedFor(Step("single", 1, {}, FALSE, FALSE, 0, FALSE, {}), "1h"),
     b |-> CachedFor(Step("subruns", 1, {"a"}, FALSE, FALSE, 0, FALSE, {}), ""),
     c |-> CachedFor(Step("single", 1, {}, FALSE, FALSE, 0, FALSE, {}), "soon")]

\* A sensitive cached sub-runs step a whose first sub-run is not marked
\* sensitive, a consumer b, and a sensitive cached strings list c.
PipeVault ==
    [a |-> Step("subruns", 2, {}, TRUE, TRUE, 0, FALSE, {2}),
     b |-> Step("single", 1, {"a"}, FALSE, FALSE, 0, FALSE, {}),
     c |-> Step("strings", 2, {}, TRUE, TRUE, 0, FALSE, {})]

\* A step c that depends on the interactive step b, which depends on a.
PipeAfter ==
    [a |-> Step("single", 1, {}, FALSE, FALSE, 0, FALSE, {}),
     b |-> Step("single", 1, {"a"}, FALSE, FALSE, 0, TRUE, {}),
     c |-> Step("single", 1, {"b"}, FALSE, FALSE, 0, FALSE, {})]

Pipelines ==
    {PipeCascade, PipeFan, PipeSecret, PipeInteractive, PipeChain, PipeTerminal,
     PipeExpiry, PipeVault, PipeAfter}

\* ------------------------------------------------------------------- state

VARIABLES
    pipeline,   \* Runner.pipeline.Steps, fixed for the behaviour
    cap,        \* maxParallel
    runNo,      \* invocations of runPipeline so far
    resumed,    \* the current run was started with --resume
    runPc,      \* position of Runner.Run: "idle" | "dispatch" | "interactive" | "returned" | "killed"
    retErr,     \* Run returned a non-nil error
    rstate,     \* state.RunState: status, finished_at set, steps
    disk,       \* the run's state file as state.Save last wrote it
    env,        \* Runner.envVars
    cache,      \* the cache directory: one entry per step id
    now,        \* the wall clock, time.Now()
    wpc,        \* per step, its worker: "idle" | "acquire" | "exec" | "sent"
    held,       \* per step, semaphore slots its worker holds
    child,      \* per step and command index: "none" | "live" | "ok" | "fail" | "skip"
    tries,      \* per step, attempts made by Retry
    iChild,     \* the interactive child: "none" | "live"
    results,    \* the results channel
    inDeg,      \* Run's working copy of the in-degrees
    completed,  \* Run's completed counter
    failedSet,  \* Run's failed map
    firstErr,   \* Run's firstErr != nil
    spawned,    \* per step, child processes spawned for it in this run
    recvOk,     \* steps whose result was received with Err == nil
    recvErr,    \* steps whose result was received with Err != nil
    startedAfterFail, \* steps whose worker was started after a failing result was received
    how,        \* per step, what runStep did in this run: "" | "skipped" | "cached" | "ran"
    loaded,     \* state.Steps as it was when this run began
    envStart,   \* envVars as it was when Run was entered
    readyValid, \* steps that had a valid cache entry when their worker was started
    captured,   \* per single step, the stdout runSingle captured from its last successful child
    failures,   \* per step, children of it that exited with an error in this run
    stateFile,  \* state.Save/Load: the file <run-id>.json
    tmpFile,    \* state.Save: the file <run-id>.json.tmp
    savePc,     \* position of state.Save: "idle" | "wrote"
    saving,     \* the RunState handed to the current or last Save
    before,     \* the file <run-id>.json as it was when the current or last Save was entered
    saveErr,    \* what the last Save returned: "" (none yet) | "nil" | "write" | "rename"
    stepList,   \* graph.Build: its argument, the pipeline's step list
    built,      \* graph.Build: what it returned
    varsIn,     \* ResolveVars: its three maps, the host environment and the escape hatch
    varsOut,    \* ResolveVars: what it returned
    rotIn,      \* RotateStates: the limit and the state directory before the call
    rotOut,     \* RotateStates: whether it was called and the directory it left
    lpc,        \* per thread of a sub-runs step's execution, its position
    stateMu,    \* Runner.stateMu: the thread that holds it, or "free"
    subMu       \* runParallelSubRuns' local mutex mu: its holder, or "free"

runnerVars == <<pipeline, cap, runNo, resumed, runPc, retErr, rstate, disk, env, cache,
          wpc, held, child, tries, iChild, results, inDeg, completed,
          failedSet, firstErr, spawned, recvOk, recvErr, startedAfterFail,
          how, loaded, envStart, now, readyValid, captured, failures>>
saveVars == <<stateFile, tmpFile, savePc, saving, before, saveErr>>
graphVars == <<stepList, built>>
resolveVars == <<varsIn, varsOut>>
rotateVars == <<rotIn, rotOut>>
lockVars == <<lpc, stateMu, subMu>>

vars == <<runnerVars, saveVars, graphVars, resolveVars, rotateVars, lockVars>>

\* ------------------------------------------------------- records and zeros

\* The zero value of state.StepState for a sub-run.
ZeroSub == [status |-> "", exit |-> 0, output |-> <<>>, sensitive |-> FALSE]

\* The zero value of state.StepState (what a missing map key reads as).
ZeroStepState ==
    [status |-> "", exit |-> 0, output |-> <<>>, sensitive |-> FALSE,
     attempts |-> 0, sub |-> [k \in SubIds |-> ZeroSub]]

\* Entry.ExpiresAt == nil
NoExpiry == [has |-> FALSE, at |-> 0]

NoEntry ==
    [exists |-> FALSE, expiresAt |-> NoExpiry, exitCode |-> 0,
     output |-> <<>>, sensitive |-> FALSE, runType |-> "",
     sub |-> [k \in SubIds |-> [has |-> FALSE, output |-> <<>>, sensitive |-> FALSE]]]

\* Variant of IsValid: expires_at is ignored.
IsValidForever(entry, t) == entry.exists

\* cache.IsValid on the entry cache.Load returns (a missing file loads as nil).
IsValid(entry, t) ==
    /\ entry.exists
    /\ ~entry.expiresAt.has \/ t < entry.expiresAt.at

Unset == [has |-> FALSE, val |-> <<>>]
Val(v) == [has |-> TRUE, val |-> v]

\* runner.EnvKey(step) is <<step, 0>>, runner.EnvKey(step, sub) is <<step, sub>>.
EnvKey(s, k) == <<s, k>>
EnvKeys == {EnvKey(s, k) : s \in StepIds, k \in {0} \cup SubIds}

Cmds(s) == 1..pipeline[s].n

\* ------------------------------------------------------------ graph.Build

\* graph.Graph.Dependents
Dependents(s) == {d \in StepIds : s \in pipeline[d].deps}
\* graph.Graph.InDegree
InDegree(s) == Cardinality(pipeline[s].deps)

\* runner.InteractiveStep: the set holding the interactive step, if any.
Interactive == {s \in StepIds : pipeline[s].interactive}
Dispatched == StepIds \ Interactive
\* total := len(inDeg)
Total == Cardinality(Dispatched)

\* Variant of stepProcessCount: one slot whatever the fan-out.
stepProcessCountOne(s) == 1

\* stepProcessCount
stepProcessCount(s) ==
    IF pipeline[s].kind = "single" THEN 1 ELSE pipeline[s].n

\* Free semaphore slots.
Free == cap - (held["a"] + held["b"] + held["c"])


\* ------------------------------------------------------------------- Init

RunnerInit ==
    /\ pipeline \in Pipelines
    /\ cap \in 1..MaxCap
    /\ runNo = 0
    /\ resumed = FALSE
    /\ runPc = "idle"
    /\ retErr = FALSE
    /\ rstate = [status |-> "", finished |-> FALSE,
                 steps |-> [s \in StepIds |-> ZeroStepState]]
    /\ disk = rstate
    /\ env = [key \in EnvKeys |-> Unset]
    /\ cache = [s \in StepIds |-> NoEntry]
    /\ wpc = [s \in StepIds |-> "idle"]
    /\ held = [s \in StepIds |-> 0]
    /\ child = [s \in StepIds |-> [k \in SubIds |-> "none"]]
    /\ tries = [s \in StepIds |-> 0]
    /\ iChild = "none"
    /\ results = <<>>
    /\ inDeg = [s \in StepIds |-> 0]
    /\ completed = 0
    /\ failedSet = {}
    /\ firstErr = FALSE
    /\ spawned = [s \in StepIds |-> 0]
    /\ recvOk = {}
    /\ recvErr = {}
    /\ startedAfterFail = {}
    /\ how = [s \in StepIds |-> ""]
    /\ loaded = [s \in StepIds |-> ZeroStepState]
    /\ envStart = [key \in EnvKeys |-> Unset]
    /\ now = 0
    /\ readyValid = {}
    /\ captured = [s \in StepIds |-> <<>>]
    /\ failures = [s \in StepIds |-> 0]


\* --------------------------------------------------- runPipeline, Run entry

\* Variant of RestoreEnvFromState: the stored output is restored untrimmed.
RestoreEnvUntrimmed(steps) ==
    [key \in EnvKeys |->
        LET ss == steps[key[1]]
            k == key[2]
        IN  IF ss.status = "done" /\ ~ss.sensitive
            THEN IF k = 0
                 THEN IF ss.output # <<>> THEN Val(ss.output) ELSE Unset
                 ELSE IF /\ ss.sub[k].status = "done"
                         /\ ~ss.sub[k].sensitive
                         /\ ss.sub[k].output # <<>>
                      THEN Val(ss.sub[k].output)
                      ELSE Unset
            ELSE Unset]

\* Runner.RestoreEnvFromState applied to an empty variable map.
RestoreEnvFromState(steps) ==
    [key \in EnvKeys |->
        LET ss == steps[key[1]]
            k == key[2]
        IN  IF ss.status = "done" /\ ~ss.sensitive
            THEN IF k = 0
                 THEN IF ss.output # <<>> THEN Val(TrimRight(ss.output)) ELSE Unset
                 ELSE IF /\ ss.sub[k].status = "done"
                         /\ ~ss.sub[k].sensitive
                         /\ ss.sub[k].output # <<>>
                      THEN Val(TrimRight(ss.sub[k].output))
                      ELSE Unset
            ELSE Unset]

\* Variant of Seeded: every dispatched step is seeded.
SeededAll == Dispatched

\* The steps Run seeds before its dispatch loop: in-degree 0, not interactive.
Seeded == {s \in Dispatched : InDegree(s) = 0}

\* runPipeline followed by the entry of Runner.Run up to the dispatch loop:
\* a new RunState, or the loaded one with status "running"; the environment
\* map (restored from state on resume); the working in-degrees and the seeds.
StartRun(resume) ==
    /\ UNCHANGED <<saveVars, graphVars, resolveVars, rotateVars, lockVars>>
    /\ runPc \in {"idle", "returned"}
    /\ runNo < MaxRuns
    /\ resume => runNo > 0
    /\ runNo' = runNo + 1
    /\ resumed' = resume
    /\ rstate' = IF resume
                 THEN [disk EXCEPT !.status = "running"]
                 ELSE [status |-> "running", finished |-> FALSE,
                       steps |-> [s \in StepIds |-> ZeroStepState]]
    /\ disk' = rstate'
    /\ loaded' = rstate'.steps
    /\ env' = IF resume THEN RestoreEnvFromState(rstate'.steps)
              ELSE [key \in EnvKeys |-> Unset]
    /\ envStart' = env'
    /\ inDeg' = [s \in StepIds |-> IF s \in Interactive THEN 0 ELSE InDegree(s)]
    /\ wpc' = [s \in StepIds |-> IF s \in Seeded THEN "acquire" ELSE "idle"]
    /\ held' = [s \in StepIds |-> 0]
    /\ child' = [s \in StepIds |-> [k \in SubIds |-> "none"]]
    /\ tries' = [s \in StepIds |-> 0]
    /\ iChild' = "none"
    /\ results' = <<>>
    /\ completed' = 0
    /\ failedSet' = {}
    /\ firstErr' = FALSE
    /\ retErr' = FALSE
    /\ spawned' = [s \in StepIds |-> 0]
    /\ recvOk' = {}
    /\ recvErr' = {}
    /\ startedAfterFail' = {}
    /\ how' = [s \in StepIds |-> ""]
    /\ runPc' = "dispatch"
    /\ readyValid' = {s \in Seeded : pipeline[s].cached /\ IsValid(cache[s], now)}
    /\ captured' = [s \in StepIds |-> <<>>]
    /\ failures' = [s \in StepIds |-> 0]
    /\ UNCHANGED <<pipeline, cap, cache, now>>

\* ---------------------------------------------------------------- workers

\* workerRun, first loop: one send on the semaphore channel.
Acquire(s) ==
    /\ UNCHANGED <<saveVars, graphVars, resolveVars, rotateVars, lockVars>>
    /\ runPc = "dispatch"
    /\ wpc[s] = "acquire"
    /\ held[s] < stepProcessCount(s)
    /\ Free > 0
    /\ held' = [held EXCEPT ![s] = @ + 1]
    /\ UNCHANGED <<failures, captured, now, readyValid, pipeline, cap, runNo, resumed, runPc, retErr, rstate, disk,
                   env, cache, wpc, child, tries, iChild, results, inDeg, completed,
                   failedSet, firstErr, spawned, recvOk, recvErr,
                   startedAfterFail, how, loaded, envStart>>

\* Variant of Complete: the result is sent without the step's error.
CompleteNoErr(s, err) ==
    /\ wpc' = [wpc EXCEPT ![s] = "sent"]
    /\ held' = [held EXCEPT ![s] = 0]
    /\ results' = Append(results, [id |-> s, err |-> FALSE])

\* workerRun after runStep returned: release every slot, send the result.
Complete(s, err) ==
    /\ wpc' = [wpc EXCEPT ![s] = "sent"]
    /\ held' = [held EXCEPT ![s] = 0]
    /\ results' = Append(results, [id |-> s, err |-> err])

\* Variant of SkipDone: the sensitive test is inverted.
SkipDoneSensitive(s) == rstate.steps[s].status = "done" /\ pipeline[s].sensitive

\* Variant of SkipDone: a step stored "failed" is skipped as well.
SkipStored(s) ==
    rstate.steps[s].status \in {"done", "failed"} /\ ~pipeline[s].sensitive

\* runStep's resume check: the stored status is "done" and the pipeline's
\* step is not sensitive.
SkipDone(s) == rstate.steps[s].status = "done" /\ ~pipeline[s].sensitive

\* tryCache reports a hit.
CacheHit(s) == pipeline[s].cached /\ IsValid(cache[s], now)

\* tryCache on a hit: the environment entries it restores.
CacheEnv(s) ==
    LET entry == cache[s] IN
    [key \in EnvKeys |->
        IF key[1] # s \/ entry.sensitive THEN env[key]
        ELSE IF key[2] = 0
             THEN IF entry.output # <<>> THEN Val(TrimRight(entry.output)) ELSE env[key]
             ELSE IF /\ entry.sub[key[2]].has
                     /\ ~entry.sub[key[2]].sensitive
                     /\ entry.sub[key[2]].output # <<>>
                  THEN Val(TrimRight(entry.sub[key[2]].output))
                  ELSE env[key]]

\* tryCache on a hit: the step state it stores.
CacheState(s) ==
    LET ss == rstate.steps[s] IN
    [ss EXCEPT !.status = "done", !.exit = 0,
               !.sensitive = pipeline[s].sensitive,
               !.output = IF pipeline[s].sensitive THEN @ ELSE cache[s].output]

\* runParallelSubRuns: sub-run k is skipped because it is already done and
\* not sensitive.
SkipSub(s, k) ==
    rstate.steps[s].sub[k].status = "done" /\ k \notin pipeline[s].subSens

\* Variant of Launch: only the first command is started.
LaunchFirst(s) ==
    [k \in SubIds |-> IF k = 1 THEN "live" ELSE "none"]

\* The children a step launches when it starts executing.
Launch(s) ==
    [k \in SubIds |->
        IF k \notin Cmds(s) THEN "none"
        ELSE IF pipeline[s].kind = "subruns" /\ SkipSub(s, k) THEN "skip"
        ELSE "live"]

Live(s) == {k \in SubIds : child[s][k] = "live"}

\* runStep once the worker holds all its slots: skip a done step, take a
\* cache hit, or mark the step running and launch its children.
StartStep(s) ==
    /\ UNCHANGED <<saveVars, graphVars, resolveVars, rotateVars, lockVars>>
    /\ runPc = "dispatch"
    /\ wpc[s] = "acquire"
    /\ held[s] = stepProcessCount(s)
    /\ IF SkipDone(s)
       THEN /\ Complete(s, FALSE)
            /\ how' = [how EXCEPT ![s] = "skipped"]
            /\ UNCHANGED <<rstate, disk, env, child, tries, spawned>>
       ELSE IF CacheHit(s)
       THEN /\ env' = CacheEnv(s)
            /\ rstate' = [rstate EXCEPT !.steps[s] = CacheState(s)]
            /\ disk' = rstate'
            /\ Complete(s, FALSE)
            /\ how' = [how EXCEPT ![s] = "cached"]
            /\ UNCHANGED <<child, tries, spawned>>
       ELSE /\ rstate' = [rstate EXCEPT !.steps[s].status = "running"]
            /\ disk' = rstate'
            /\ child' = [child EXCEPT ![s] = Launch(s)]
            /\ tries' = [tries EXCEPT ![s] = IF pipeline[s].kind = "single" THEN 1 ELSE 0]
            /\ spawned' = [spawned EXCEPT
                             ![s] = Cardinality({k \in SubIds : Launch(s)[k] = "live"})]
            /\ wpc' = [wpc EXCEPT ![s] = "exec"]
            /\ how' = [how EXCEPT ![s] = "ran"]
            /\ UNCHANGED <<env, held, results>>
    /\ UNCHANGED <<failures, captured, now, readyValid, pipeline, cap, runNo, resumed, runPc, retErr, cache, iChild,
                   inDeg, completed, failedSet, firstErr, recvOk, recvErr,
                   startedAfterFail, loaded, envStart>>

\* cache.ParseExpiry: the empty string gives the zero time, a duration ("1h",
\* one tick of the clock) gives t plus the duration, anything else an error.
ParseExpiry(expireAfter, t) ==
    IF expireAfter = "" THEN [err |-> FALSE, zero |-> TRUE, at |-> 0]
    ELSE IF expireAfter = "1h" THEN [err |-> FALSE, zero |-> FALSE, at |-> t + 1]
    ELSE [err |-> TRUE, zero |-> TRUE, at |-> 0]

\* Variant of saveCache: the entry is saved whether or not the step is cached.
saveCacheAlways(s, entry) == [cache EXCEPT ![s] = entry]

\* saveCache with the entry a step builds on success: nothing for a step that
\* is not cached or whose expire_after does not parse; else the entry is
\* saved, with expires_at unless the parsed time is zero.
saveCache(s, entry) ==
    LET expiresAt == ParseExpiry(pipeline[s].expireAfter, now) IN
    IF ~pipeline[s].cached THEN cache
    ELSE IF expiresAt.err THEN cache
    ELSE [cache EXCEPT ![s] =
            [entry EXCEPT !.expiresAt =
                IF expiresAt.zero THEN NoExpiry
                ELSE [has |-> TRUE, at |-> expiresAt.at]]]

\* Variant of maxAttempts: the first attempt is not counted on top of retry.
maxAttemptsRetry(s) == pipeline[s].retry

\* runSingle: maxAttempts := step.Retry + 1
maxAttempts(s) == pipeline[s].retry + 1

\* Retry: another attempt is made while fewer than maxAttempts were.
RetryAgain(s) == tries[s] < maxAttempts(s)

\* runSingle: the child of a single step exits. A failure is retried while
\* attempts remain; otherwise the step state, the environment and the cache
\* are updated and the worker releases its slot and sends the result.
ExitSingle(s, ok, out) ==
    /\ UNCHANGED <<saveVars, graphVars, resolveVars, rotateVars, lockVars>>
    /\ runPc = "dispatch"
    /\ wpc[s] = "exec"
    /\ pipeline[s].kind = "single"
    /\ child[s][1] = "live"
    /\ IF ~ok /\ RetryAgain(s)
       THEN /\ out = <<>>
            /\ tries' = [tries EXCEPT ![s] = @ + 1]
            /\ spawned' = [spawned EXCEPT ![s] = @ + 1]
            /\ UNCHANGED <<rstate, disk, env, cache, child, wpc, held, results, captured>>
       ELSE IF ~ok
       THEN /\ out = <<>>
            /\ rstate' = [rstate EXCEPT !.steps[s].status = "failed",
                                        !.steps[s].exit = 1,
                                        !.steps[s].attempts = tries[s]]
            /\ disk' = rstate'
            /\ child' = [child EXCEPT ![s][1] = "fail"]
            /\ Complete(s, TRUE)
            /\ UNCHANGED <<env, cache, tries, spawned, captured>>
       ELSE /\ rstate' = [rstate EXCEPT
                  !.steps[s].status = "done",
                  !.steps[s].exit = 0,
                  !.steps[s].attempts = tries[s],
                  !.steps[s].sensitive = pipeline[s].sensitive,
                  !.steps[s].output = IF pipeline[s].sensitive THEN @ ELSE out]
            /\ disk' = rstate'
            /\ captured' = [captured EXCEPT ![s] = out]
            /\ env' = [env EXCEPT ![EnvKey(s, 0)] = Val(TrimRight(out))]
            /\ cache' = saveCache(s,
                  [NoEntry EXCEPT !.exists = TRUE,
                                  !.output = IF pipeline[s].sensitive THEN <<>> ELSE out,
                                  !.sensitive = pipeline[s].sensitive,
                                  !.runType = "single"])
            /\ child' = [child EXCEPT ![s][1] = "ok"]
            /\ Complete(s, FALSE)
            /\ UNCHANGED <<tries, spawned>>
    /\ failures' = [failures EXCEPT ![s] = IF ok THEN @ ELSE @ + 1]
    /\ UNCHANGED <<now, readyValid, pipeline, cap, runNo, resumed, runPc, retErr, iChild, inDeg,
                   completed, failedSet, firstErr, recvOk, recvErr,
                   startedAfterFail, how, loaded, envStart>>

\* runParallelStrings / runParallelSubRuns: one child exits. A sub-run
\* records its sub-step state and, on success, publishes its variable.
ExitChild(s, k, ok, out) ==
    /\ UNCHANGED <<saveVars, graphVars, resolveVars, rotateVars, lockVars>>
    /\ runPc = "dispatch"
    /\ wpc[s] = "exec"
    /\ pipeline[s].kind # "single"
    /\ child[s][k] = "live"
    /\ child' = [child EXCEPT ![s][k] = IF ok THEN "ok" ELSE "fail"]
    /\ IF pipeline[s].kind = "strings"
       THEN /\ out = <<>>
            /\ UNCHANGED <<rstate, env>>
       ELSE IF ~ok
       THEN /\ out = <<>>
            /\ rstate' = [rstate EXCEPT !.steps[s].sub[k] =
                              [ZeroSub EXCEPT !.status = "failed", !.exit = 1]]
            /\ UNCHANGED env
       ELSE /\ rstate' = [rstate EXCEPT !.steps[s].sub[k] =
                  [ZeroSub EXCEPT
                      !.status = "done",
                      !.sensitive = k \in pipeline[s].subSens,
                      !.output = IF k \in pipeline[s].subSens THEN <<>> ELSE out]]
            /\ env' = [env EXCEPT ![EnvKey(s, k)] = Val(TrimRight(out))]
    /\ failures' = [failures EXCEPT ![s] = IF ok THEN @ ELSE @ + 1]
    /\ UNCHANGED <<captured, now, readyValid, pipeline, cap, runNo, resumed, runPc, retErr, disk, cache, wpc,
                   held, tries, iChild, results, inDeg, completed, failedSet,
                   firstErr, spawned, recvOk, recvErr, startedAfterFail, how, loaded,
                   envStart>>

\* The cache entry runParallelSubRuns builds from the sub-step states.
SubRunsEntry(s) ==
    [NoEntry EXCEPT
        !.exists = TRUE,
        !.sensitive = pipeline[s].sensitive,
        !.runType = "subruns",
        !.sub = [k \in SubIds |->
                    IF k \in Cmds(s)
                    THEN [has |-> TRUE,
                          output |-> rstate.steps[s].sub[k].output,
                          sensitive |-> rstate.steps[s].sub[k].sensitive]
                    ELSE NoEntry.sub[k]]]

\* runParallelStrings / runParallelSubRuns after wg.Wait: the step fails if
\* any child failed, else it is done and cached; then the worker releases its
\* slots and sends the result.
FinishPar(s) ==
    /\ UNCHANGED <<saveVars, graphVars, resolveVars, rotateVars, lockVars>>
    /\ runPc = "dispatch"
    /\ wpc[s] = "exec"
    /\ pipeline[s].kind # "single"
    /\ Live(s) = {}
    /\ IF \E k \in SubIds : child[s][k] = "fail"
       THEN /\ rstate' = [rstate EXCEPT !.steps[s].status = "failed"]
            /\ Complete(s, TRUE)
            /\ UNCHANGED cache
       ELSE /\ rstate' = [rstate EXCEPT !.steps[s].status = "done",
                                        !.steps[s].exit = 0]
            /\ cache' = saveCache(s,
                  IF pipeline[s].kind = "strings"
                  THEN [NoEntry EXCEPT !.exists = TRUE, !.runType = "strings"]
                  ELSE SubRunsEntry(s))
            /\ Complete(s, FALSE)
    /\ disk' = rstate'
    /\ UNCHANGED <<failures, captured, now, readyValid, pipeline, cap, runNo, resumed, runPc, retErr, env, child,
                   tries, iChild, inDeg, completed, failedSet, firstErr, spawned,
                   recvOk, recvErr, startedAfterFail, how, loaded, envStart>>


\* -------------------------------------------------------- the dispatch loop

\* Variant of cascadeFail: only the direct dependents are marked.
cascadeDirect(frontier, marked) ==
    marked \cup ({d \in StepIds : \E q \in frontier : d \in Dependents(q)} \ Interactive)

\* cascadeFail's breadth-first walk: `marked` is the failed map, `frontier`
\* the queue. A dependent is visited unless it is the interactive step or is
\* already marked; the walk continues from the newly marked steps only.
RECURSIVE cascadeFail(_, _)
cascadeFail(frontier, marked) ==
    LET new == {d \in StepIds : \E q \in frontier : d \in Dependents(q)}
                 \ (Interactive \cup marked)
    IN  IF new = {} THEN marked ELSE cascadeFail(new, marked \cup new)

\* The dependents of a succeeded step whose in-degree Run decrements.
Decremented(id) == {d \in Dependents(id) : d \notin Interactive /\ d \notin failedSet}

\* The dependents Run hands to a new worker after the result of `id`.
NewlyReady(id) == {d \in Decremented(id) : inDeg[d] - 1 = 0}

\* Variant of Started: the dependents are started after any result, failed or not.
StartedAnyResult(res) == NewlyReady(res.id)

\* The steps Run hands to a new worker after receiving `res`: none after an
\* error, the newly ready dependents after a success.
Started(res) == IF res.err THEN {} ELSE NewlyReady(res.id)

\* One iteration of the dispatch loop: receive a result; on an error mark the
\* step and cascade-fail its dependents, otherwise decrement the dependents'
\* in-degrees and start a worker for each that reaches zero.
Receive ==
    /\ UNCHANGED <<saveVars, graphVars, resolveVars, rotateVars, lockVars>>
    /\ runPc = "dispatch"
    /\ completed < Total
    /\ results # <<>>
    /\ LET res == Head(results)
           marked == cascadeFail({res.id}, failedSet \cup {res.id})
           casc == marked \ (failedSet \cup {res.id})
       IN  /\ results' = Tail(results)
           /\ wpc' = [s \in StepIds |->
                          IF s \in Started(res) THEN "acquire" ELSE wpc[s]]
           /\ startedAfterFail' =
                  IF firstErr THEN startedAfterFail \cup Started(res)
                  ELSE startedAfterFail
           /\ readyValid' = readyValid \cup
                  {s \in Started(res) : pipeline[s].cached /\ IsValid(cache[s], now)}
           /\ IF res.err
              THEN /\ failedSet' = marked
                   /\ firstErr' = TRUE
                   /\ recvErr' = recvErr \cup {res.id}
                   /\ rstate' = [rstate EXCEPT !.steps =
                          [s \in StepIds |->
                              IF s \in casc THEN [@[s] EXCEPT !.status = "failed"]
                              ELSE @[s]]]
                   /\ disk' = IF casc = {} THEN disk ELSE rstate'
                   /\ completed' = completed + 1 + Cardinality(casc)
                   /\ UNCHANGED <<inDeg, recvOk>>
              ELSE /\ inDeg' = [s \in StepIds |->
                                  IF s \in Decremented(res.id) THEN inDeg[s] - 1
                                  ELSE inDeg[s]]
                   /\ recvOk' = recvOk \cup {res.id}
                   /\ completed' = completed + 1
                   /\ UNCHANGED <<failedSet, firstErr, recvErr, rstate, disk>>
    /\ UNCHANGED <<failures, captured, now, pipeline, cap, runNo, resumed, runPc, retErr, env, cache,
                   held, child, tries, iChild, spawned, how, loaded, envStart>>

\* Variant of InteractivePending: the stored status is not looked at.
InteractiveAlways == Interactive # {}

\* Run has an interactive step and runInteractive does not skip it: its
\* stored status is not "done".
InteractivePending ==
    Interactive # {} /\ \E i \in Interactive : rstate.steps[i].status # "done"

\* Run after the dispatch loop: a failed run is recorded and returned; else
\* the interactive step, if any, is run (runInteractive skips it when its
\* state is already "done"); else the run is recorded done.
Finalize ==
    /\ UNCHANGED <<saveVars, graphVars, resolveVars, rotateVars, lockVars>>
    /\ runPc = "dispatch"
    /\ ~(completed < Total)
    /\ IF firstErr
       THEN /\ rstate' = [rstate EXCEPT !.status = "failed", !.finished = TRUE]
            /\ retErr' = TRUE
            /\ runPc' = "returned"
            /\ UNCHANGED <<iChild, spawned, how>>
       ELSE IF InteractivePending
       THEN /\ rstate' = [rstate EXCEPT !.steps =
                   [s \in StepIds |->
                       IF s \in Interactive THEN [@[s] EXCEPT !.status = "running"]
                       ELSE @[s]]]
            /\ iChild' = "live"
            /\ spawned' = [s \in StepIds |->
                              IF s \in Interactive THEN 1 ELSE spawned[s]]
            /\ how' = [s \in StepIds |-> IF s \in Interactive THEN "ran" ELSE how[s]]
            /\ runPc' = "interactive"
            /\ UNCHANGED retErr
       ELSE /\ rstate' = [rstate EXCEPT !.status = "done", !.finished = TRUE]
            /\ how' = [s \in StepIds |-> IF s \in Interactive THEN "skipped" ELSE how[s]]
            /\ runPc' = "returned"
            /\ UNCHANGED <<retErr, iChild, spawned>>
    /\ disk' = rstate'
    /\ UNCHANGED <<failures, captured, now, readyValid, pipeline, cap, runNo, resumed, env, cache, wpc, held, child,
                   tries, results, inDeg, completed, failedSet, firstErr,
                   recvOk, recvErr, startedAfterFail, loaded, envStart>>

\* runInteractive after cmd.Wait (or a failed cmd.Start), and the rest of
\* Run: the step and the run are recorded done or failed.
InteractiveExit(ok) ==
    /\ UNCHANGED <<saveVars, graphVars, resolveVars, rotateVars, lockVars>>
    /\ runPc = "interactive"
    /\ iChild = "live"
    /\ iChild' = "none"
    /\ rstate' = [rstate EXCEPT
           !.status = IF ok THEN "done" ELSE "failed",
           !.finished = TRUE,
           !.steps = [s \in StepIds |->
               IF s \in Interactive
               THEN [@[s] EXCEPT !.status = IF ok THEN "done" ELSE "failed",
                                 !.exit = IF ok THEN 0 ELSE 1]
               ELSE @[s]]]
    /\ disk' = rstate'
    /\ retErr' = ~ok
    /\ runPc' = "returned"
    /\ UNCHANGED <<failures, captured, now, readyValid, pipeline, cap, runNo, resumed, env, cache, wpc, held, child,
                   tries, results, inDeg, completed, failedSet, firstErr,
                   spawned, recvOk, recvErr, startedAfterFail, how, loaded, envStart>>

\* Time passes. The clock is read only through expires_at, so it is advanced
\* only for pipelines that have a step with an expire_after.
Tick ==
    /\ UNCHANGED <<saveVars, graphVars, resolveVars, rotateVars, lockVars>>
    /\ now < MaxClock
    /\ \E s \in StepIds : pipeline[s].expireAfter # ""
    /\ now' = now + 1
    /\ UNCHANGED <<pipeline, cap, runNo, resumed, runPc, retErr, rstate, disk,
                   env, cache, wpc, held, child, tries, iChild, results, inDeg,
                   completed, failedSet, firstErr, spawned, recvOk, recvErr,
                   startedAfterFail, how, loaded, envStart, readyValid, captured,
                   failures>>

\* SIGINT or SIGTERM arrives while children of non-interactive steps run.
\* Run installs no handler (signal.Notify is called in runInteractive only),
\* so the Go runtime ends the process where it stands: nothing more is
\* written. A signal sent to the whole foreground process group also ends
\* the children; one sent to the pipe process alone leaves them running.
Interrupt(group) ==
    /\ UNCHANGED <<saveVars, graphVars, resolveVars, rotateVars, lockVars>>
    /\ runPc = "dispatch"
    /\ \E s \in StepIds : Live(s) # {}
    /\ runPc' = "killed"
    /\ child' = [s \in StepIds |-> [k \in SubIds |->
                     IF group /\ child[s][k] = "live" THEN "fail" ELSE child[s][k]]]
    /\ UNCHANGED <<pipeline, cap, runNo, resumed, retErr, rstate, disk, env, cache,
                   wpc, held, tries, iChild, results, inDeg, completed,
                   failedSet, firstErr, spawned, recvOk, recvErr, startedAfterFail,
                   how, loaded, envStart, now, readyValid, captured, failures>>

\* ------------------------------------------------------- state.Save, Load

\* The runner at rest while another package's function is exercised.
RunnerOff == RunnerInit /\ pipeline = PipeCascade /\ cap = 1

\* The zero value of the RunState a Save is handed, and of its document.
NoState == [status |-> "", output |-> <<>>, attempts |-> 0]
NoDoc == [status |-> "", output |-> Unset, attempts |-> [has |-> FALSE, n |-> 0]]
\* A file: missing, holding a truncated document, or holding a whole one.
Absent == [kind |-> "absent", doc |-> NoDoc]
Partial == [kind |-> "partial", doc |-> NoDoc]
Whole(doc) == [kind |-> "whole", doc |-> doc]

\* Step outputs as byte strings: nothing, a printable byte, and a byte that
\* is not valid UTF-8 (a child may print any bytes).
SavedOutputs == {<<>>, <<"k">>, <<"xFF">>}

\* The RunState values handed to Save: one step with its output and attempts.
SavedStates ==
    {[status |-> st, output |-> out, attempts |-> n] :
        st \in {"running", "failed"}, out \in SavedOutputs, n \in {0, 2}}

\* encoding/json writes a string coerced to valid UTF-8: each invalid byte
\* becomes the replacement rune U+FFFD.
ToValidUTF8(s) == [i \in 1..Len(s) |-> IF s[i] = "xFF" THEN "uFFFD" ELSE s[i]]

\* json.MarshalIndent(rs): the document, with the omitempty keys left out.
Marshal(rs) ==
    [status |-> rs.status,
     output |-> IF rs.output = <<>> THEN Unset ELSE Val(ToValidUTF8(rs.output)),
     attempts |-> [has |-> rs.attempts # 0, n |-> rs.attempts]]

\* json.Unmarshal(data, &rs): a missing key leaves the zero value.
Unmarshal(doc) ==
    [status |-> doc.status,
     output |-> IF doc.output.has THEN doc.output.val ELSE <<>>,
     attempts |-> IF doc.attempts.has THEN doc.attempts.n ELSE 0]

\* state.Load on the file as it is now.
Load ==
    CASE stateFile.kind = "absent" -> [err |-> "not found", rs |-> NoState]
      [] stateFile.kind = "partial" -> [err |-> "parsing state", rs |-> NoState]
      [] OTHER -> [err |-> "nil", rs |-> Unmarshal(stateFile.doc)]

\* Save up to the return of os.WriteFile(tmp, data): on an error the tmp file
\* is untouched (it could not be opened) or holds a truncated document.
SaveWrite(rs, ok) ==
    /\ savePc = "idle"
    /\ saving' = rs
    /\ before' = stateFile
    /\ IF ok
       THEN /\ tmpFile' = Whole(Marshal(rs))
            /\ savePc' = "wrote"
            /\ saveErr' = saveErr
       ELSE /\ tmpFile' \in {tmpFile, Partial}
            /\ savePc' = "idle"
            /\ saveErr' = "write"
    /\ UNCHANGED <<stateFile, runnerVars, graphVars, resolveVars, rotateVars, lockVars>>

\* Save from os.Rename(tmp, path) to its return.
SaveRename(ok) ==
    /\ savePc = "wrote"
    /\ savePc' = "idle"
    /\ IF ok
       THEN /\ stateFile' = tmpFile
            /\ tmpFile' = Absent
            /\ saveErr' = "nil"
       ELSE /\ saveErr' = "rename"
            /\ UNCHANGED <<stateFile, tmpFile>>
    /\ UNCHANGED <<saving, before, runnerVars, graphVars, resolveVars, rotateVars, lockVars>>

\* Before the first Save: no file, no tmp file.
SaveIdle ==
    /\ stateFile = Absent
    /\ tmpFile = Absent
    /\ savePc = "idle"
    /\ saving = NoState
    /\ before = Absent
    /\ saveErr = ""



\* ------------------------------------------------------------ graph.Build

\* Step ids are strings, written as sequences of characters. Two ids of the
\* pool differ only in case; NoSuchId is never the id of a step.
IdPool == {<<"a">>, <<"A">>, <<"b">>}
NoSuchId == <<"z">>

\* depends_on lists: empty, an unknown id, an unknown and a known id, an id
\* listed twice, one id.
DepLists ==
    {<<>>, <<NoSuchId>>, <<NoSuchId, <<"a">>>>, <<<<"b">>, <<"b">>>>, <<<<"A">>>>}

\* Run fields. A command is written as the sequence of names its
\* $PIPE_<NAME> and ${PIPE_<NAME>} tokens carry (what pipeVarPattern
\* captures); subs are the ids of the sub-runs, one command each.
Runs ==
    {[subs |-> <<>>, cmds |-> << <<>> >>],
     [subs |-> <<>>, cmds |-> << <<<<"A">>>> >>],
     [subs |-> <<>>, cmds |-> << <<<<"B">>, <<"A">>>>, <<<<"B">>>> >>],
     [subs |-> << <<"b">> >>, cmds |-> << <<<<"A", "_", "B">>>> >>]}

\* What a step declares besides its id.
StepBodies == {[deps |-> d, run |-> r] : d \in DepLists, r \in Runs}

\* The orders ids can come in: parser.Validate lets no id through twice.
IdOrders ==
    {o \in {<<>>} \cup {<<i>> : i \in IdPool}
                  \cup {<<i, j>> : i, j \in IdPool}
                  \cup {<<i, j, k>> : i, j, k \in IdPool} :
        \A m, n \in 1..Len(o) : o[m] = o[n] => m = n}

\* A step of the list.
GraphStep(id, body) == [id |-> id, deps |-> body.deps, run |-> body.run]

\* The step lists Build is handed.
StepLists ==
    {<<>>}
        \cup {<<GraphStep(o[1], x)>> :
                 o \in {o \in IdOrders : Len(o) = 1}, x \in StepBodies}
        \cup {<<GraphStep(o[1], x), GraphStep(o[2], y)>> :
                 o \in {o \in IdOrders : Len(o) = 2}, x, y \in StepBodies}
        \cup {<<GraphStep(o[1], x), GraphStep(o[2], y), GraphStep(o[3], z)>> :
                 o \in {o \in IdOrders : Len(o) = 3}, x, y, z \in StepBodies}

\* strings.ToUpper
UpperChar(c) ==
    CASE c = "a" -> "A" [] c = "b" -> "B" [] c = "z" -> "Z" [] OTHER -> c
ToUpper(s) == [i \in 1..Len(s) |-> UpperChar(s[i])]

\* strings.ReplaceAll(s, "-", "_")
ReplaceHyphens(s) == [i \in 1..Len(s) |-> IF s[i] = "-" THEN "_" ELSE s[i]]

\* strings.Join(parts, "_")
RECURSIVE Join(_)
Join(parts) ==
    IF parts = <<>> THEN <<>>
    ELSE IF Len(parts) = 1 THEN parts[1]
    ELSE parts[1] \o <<"_">> \o Join(Tail(parts))

\* graph.envKey
envKey(parts) == <<"PIPE_">> \o ToUpper(ReplaceHyphens(Join(parts)))

\* A Go map as a set of <<key, value>> pairs: assignment and lookup.
Put(m, k, v) == {e \in m : e[1] # k} \cup {<<k, v>>}
Has(m, k) == \E e \in m : e[1] = k
Get(m, k) == (CHOOSE e \in m : e[1] = k)[2]

\* Build's first loop, from step i on: envToStep.
RECURSIVE SubKeys(_, _, _)
SubKeys(m, s, k) ==
    IF k > Len(s.run.subs) THEN m
    ELSE SubKeys(Put(m, envKey(<<s.id, s.run.subs[k]>>), s.id), s, k + 1)

RECURSIVE envToStep(_, _, _)
envToStep(m, list, i) ==
    IF i > Len(list) THEN m
    ELSE envToStep(SubKeys(Put(m, envKey(<<list[i].id>>), list[i].id), list[i], 1),
                   list, i + 1)

\* findPipeRefs: the names of all commands, each once, in order of appearance.
RECURSIVE collect(_, _, _)
collect(refs, cmd, k) ==
    IF k > Len(cmd) THEN refs
    ELSE LET varName == <<"PIPE_">> \o cmd[k]
         IN  collect(IF \E j \in 1..Len(refs) : refs[j] = varName
                     THEN refs ELSE Append(refs, varName),
                     cmd, k + 1)

RECURSIVE findPipeRefsFrom(_, _, _)
findPipeRefsFrom(refs, s, k) ==
    IF k > Len(s.run.cmds) THEN refs
    ELSE findPipeRefsFrom(collect(refs, s.run.cmds[k], 1), s, k + 1)

findPipeRefs(s) == findPipeRefsFrom(<<>>, s, 1)

\* The Graph Build starts from: Order and InDegree filled by the first loop.
NewGraph(list) ==
    LET ids == {list[i].id : i \in 1..Len(list)}
    IN  [Deps |-> [id \in ids |-> <<>>],
         Dependents |-> [id \in ids |-> <<>>],
         InDegree |-> [id \in ids |-> 0],
         Order |-> [i \in 1..Len(list) |-> list[i].id],
         Warnings |-> <<>>,
         edgeSet |-> {}]

\* Variant of addEdge: no edgeSet check, every call appends.
addEdgeAgain(g, from, to) ==
    [g EXCEPT !.edgeSet = @ \cup {<<from, to>>},
              !.Deps[to] = Append(@, from),
              !.Dependents[from] = Append(@, to),
              !.InDegree[to] = @ + 1]

\* addEdge
addEdge(g, from, to) ==
    IF <<from, to>> \in g.edgeSet THEN g
    ELSE [g EXCEPT !.edgeSet = @ \cup {<<from, to>>},
                   !.Deps[to] = Append(@, from),
                   !.Dependents[from] = Append(@, to),
                   !.InDegree[to] = @ + 1]

\* What Build returns: err is "nil", "self-dependency" or "cycle"; who is
\* the step of a self-dependency or the steps a cycle error lists.
NotBuilt == [err |-> "none", who |-> <<>>, g |-> NewGraph(<<>>)]
Built(g) == [err |-> "nil", who |-> <<>>, g |-> g]
Failed(err, who) == [err |-> err, who |-> who, g |-> NewGraph(<<>>)]

\* Variant of UnknownDep: an unknown id fails the build.
UnknownDepFails(acc, s, dep) == Failed("unknown dependency", <<s.id>>)

\* Variant of UnknownDep: an unknown id gets its edge like a known one.
UnknownDepEdge(acc, s, dep) ==
    [acc EXCEPT !.g.edgeSet = @ \cup {<<dep, s.id>>},
                !.g.Deps[s.id] = Append(@, dep),
                !.g.InDegree[s.id] = @ + 1]

\* The branch of the depends_on loop for an id that is no step: a warning.
UnknownDep(acc, s, dep) ==
    [acc EXCEPT !.g.Warnings = Append(@, <<s.id, dep>>)]

\* The branch of the depends_on loop for dep == s.ID.
SelfDep(acc, s) == Failed("self-dependency", <<s.id>>)

\* The depends_on loop of step s, from entry k on.
RECURSIVE explicitEdges(_, _, _, _)
explicitEdges(acc, s, ids, k) ==
    IF acc.err # "nil" \/ k > Len(s.deps) THEN acc
    ELSE LET dep == s.deps[k]
         IN  explicitEdges(
                 IF dep = s.id THEN SelfDep(acc, s)
                 ELSE IF dep \notin ids THEN UnknownDep(acc, s, dep)
                 ELSE [acc EXCEPT !.g = addEdge(@, dep, s.id)],
                 s, ids, k + 1)

\* The producer an implicit edge comes from: envToStep[ref], unless it is s.
Producer(m, ref, s) ==
    IF Has(m, ref) /\ Get(m, ref) # s.id THEN {Get(m, ref)} ELSE {}

\* The implicit-edge loop of step s over refs, from entry k on.
RECURSIVE implicitEdges(_, _, _, _, _)
implicitEdges(g, s, m, refs, k) ==
    IF k > Len(refs) THEN g
    ELSE implicitEdges(
             IF Producer(m, refs[k], s) = {} THEN g
             ELSE addEdge(g, Get(m, refs[k]), s.id),
             s, m, refs, k + 1)

\* Build's second loop, from step i on.
RECURSIVE edgeLoop(_, _, _, _)
edgeLoop(acc, list, m, i) ==
    IF acc.err # "nil" \/ i > Len(list) THEN acc
    ELSE LET s == list[i]
             ids == {list[j].id : j \in 1..Len(list)}
             ex == explicitEdges(acc, s, ids, 1)
         IN  edgeLoop(
                 IF ex.err # "nil" THEN ex
                 ELSE [ex EXCEPT !.g = implicitEdges(@, s, m, findPipeRefs(s), 1)],
                 list, m, i + 1)

\* detectCycle's inner loop over g.Dependents[curr], from entry k on.
RECURSIVE release(_, _, _, _)
release(st, g, curr, k) ==
    IF k > Len(g.Dependents[curr]) THEN st
    ELSE LET dep == g.Dependents[curr][k]
             d == st.inDeg[dep] - 1
         IN  release([st EXCEPT !.inDeg[dep] = d,
                                !.queue = IF d = 0 THEN Append(@, dep) ELSE @],
                     g, curr, k + 1)

\* detectCycle's queue loop.
RECURSIVE peel(_, _)
peel(st, g) ==
    IF st.queue = <<>> THEN st
    ELSE peel(release([st EXCEPT !.queue = Tail(@), !.processed = @ + 1],
                      g, Head(st.queue), 1),
              g)

\* Variant of detectCycle: every graph passes.
detectNoCycle(g) == Built(g)

\* detectCycle
detectCycle(g) ==
    LET zero == SelectSeq(g.Order, LAMBDA id : g.InDegree[id] = 0)
        st == peel([inDeg |-> g.InDegree, queue |-> zero, processed |-> 0], g)
    IN  IF st.processed < Len(g.Order)
        THEN Failed("cycle", SelectSeq(g.Order, LAMBDA id : st.inDeg[id] > 0))
        ELSE Built(g)

\* graph.Build
Build(list) ==
    LET acc == edgeLoop(Built(NewGraph(list)), list, envToStep({}, list, 1), 1)
    IN  IF acc.err # "nil" THEN acc ELSE detectCycle(acc.g)

\* Build has not been called.
GraphIdle == stepList = <<>> /\ built = NotBuilt

\* graph.Build is called on the step list.
BuildGraph ==
    /\ built = NotBuilt
    /\ built' = Build(stepList)
    /\ UNCHANGED <<stepList, runnerVars, saveVars, resolveVars, rotateVars, lockVars>>

\* ------------------------------------------------------------ ResolveVars

\* Invocations of ResolveVars on the same arguments and host environment.
MaxCalls == 2

\* Variable keys, as sequences of characters: two differ only in case, one
\* holds a hyphen.
VarKeys == {<<"a">>, <<"A">>, <<"-">>}

\* runner.VarEnvKey
VarEnvKey(key) == <<"PIPE_VAR_">> \o ToUpper(ReplaceHyphens(key))

\* Host variable names: the escape hatch and one a default's template reads.
UnsafeName == <<"PIPE_EXPERIMENTAL_UNSAFE_VARS">>
HostName == <<"H">>
\* The declared default "{{ .H }}".
Template == <<"{{", "H", "}}">>

\* The keys of a map, and the orders in which range may visit them.
Keys(m) == {e[1] : e \in m}
Orders(S) ==
    {o \in [1..Cardinality(S) -> S] : \A i, j \in DOMAIN o : o[i] = o[j] => i = j}

\* yamlVars: each key undeclared, declared with a plain default or declared
\* with the template as default.
YamlMaps ==
    {{<<k, IF f[k] = "plain" THEN <<"y">> \o k ELSE Template>> :
          k \in {k \in VarKeys : f[k] # "absent"}} :
        f \in [VarKeys -> {"absent", "plain", "template"}]}

\* dotFileVars ("d") and cliOverrides ("c"): any keys, each value naming its
\* source and key.
SourceMaps(tag) == {{<<k, <<tag>> \o k>> : k \in K} : K \in SUBSET VarKeys}

\* The host environment: H, and any of the PIPE_VAR_* names and the escape
\* hatch.
HostEnvs ==
    {{<<HostName, <<"h">>>>} \cup {<<n, <<"e">> \o n>> : n \in N} :
        N \in SUBSET ({VarEnvKey(k) : k \in VarKeys} \cup {UnsafeName})}

\* unsafeVars
unsafeVars(sysEnv) == Has(sysEnv, UnsafeName)

\* renderVarValue: a value without "{{" is returned as it is; the template
\* is executed against the host environment (a name the map lacks gives
\* the empty string).
renderVarValue(value, sysEnv) ==
    IF value[1] # "{{" THEN value
    ELSE IF Has(sysEnv, <<value[2]>>) THEN Get(sysEnv, <<value[2]>>)
    ELSE <<>>

\* ResolveVars, step 1: the range over yamlVars in the order range takes.
RECURSIVE defaults(_, _, _, _, _)
defaults(resolved, yamlVars, sysEnv, order, i) ==
    IF i > Len(order) THEN resolved
    ELSE defaults(Put(resolved, VarEnvKey(order[i]),
                      renderVarValue(Get(yamlVars, order[i]), sysEnv)),
                  yamlVars, sysEnv, order, i + 1)

\* ResolveVars, steps 2 and 4: the range over an override source.
RECURSIVE overrides(_, _, _, _, _, _, _)
overrides(acc, source, from, declared, unsafe, order, i) ==
    IF i > Len(order) THEN acc
    ELSE LET envName == VarEnvKey(order[i])
         IN  overrides(
                 IF unsafe \/ envName \in declared
                 THEN [acc EXCEPT !.resolved = Put(@, envName, Get(source, order[i]))]
                 ELSE [acc EXCEPT !.warnings = Append(@, <<from>> \o order[i])],
                 source, from, declared, unsafe, order, i + 1)

\* ResolveVars, step 3: every name of resolved is looked up in the host
\* environment (each entry is written with its own key, in any order).
hostOverrides(resolved, sysEnv) ==
    {<<e[1], IF Has(sysEnv, e[1]) THEN Get(sysEnv, e[1]) ELSE e[2]>> : e \in resolved}

\* The set of declared keys, normalised to PIPE_VAR_* form.
Declared(yamlVars) == {VarEnvKey(k) : k \in Keys(yamlVars)}

\* ResolveVars with the orders its three ranges take.
ResolveVarsIn(in, oy, od, oc) ==
    LET unsafe == unsafeVars(in.env)
        declared == Declared(in.yaml)
        one == defaults({}, in.yaml, in.env, oy, 1)
        two == overrides([resolved |-> one, warnings |-> <<>>],
                         in.dot, "dot_file", declared, unsafe, od, 1)
        three == [two EXCEPT !.resolved = hostOverrides(@, in.env)]
    IN  overrides(three, in.cli, "CLI", declared, unsafe, oc, 1)

\* What ResolveVars may return: Go fixes no iteration order for a map.
ResolveVars(in) ==
    {ResolveVarsIn(in, oy, od, oc) :
        oy \in Orders(Keys(in.yaml)),
        od \in Orders(Keys(in.dot)),
        oc \in Orders(Keys(in.cli))}

\* ResolveVars has not been called.
ResolveIdle == varsIn = [yaml |-> {}, dot |-> {}, cli |-> {}, env |-> {}] /\ varsOut = <<>>

\* One invocation of ResolveVars.
ResolveCall ==
    /\ Len(varsOut) < MaxCalls
    /\ \E r \in ResolveVars(varsIn) : varsOut' = Append(varsOut, r)
    /\ UNCHANGED <<varsIn, runnerVars, saveVars, graphVars, rotateVars, lockVars>>


\* ------------------------------------------------------ state.RotateStates

\* PIPE_STATE_ROTATE is drawn from 0..MaxLimit.
MaxLimit == 3
\* Modification times run from 1 to MaxTime.
MaxTime == 2

\* File names, as sequences of a stem and its extensions.
CurrentFile == <<"cur", ".json">>
RunFiles == {CurrentFile, <<"r1", ".json">>, <<"r2", ".json">>, <<"r3", ".json">>}
TmpName == <<"r1", ".json", ".tmp">>
OtherName == <<"notes", ".txt">>
DirName == <<"old", ".json">>

\* strings.HasSuffix, for an extension.
HasSuffix(name, suffix) == name # <<>> /\ name[Len(name)] = suffix

\* os.DirEntry
Entry(name, isDir, t) == [name |-> name, isDir |-> isDir, modTime |-> t]

\* The pipeline's state directory: any of the run files with any
\* modification times, and possibly a .tmp file, another file and a
\* directory.
StateDirs ==
    {{Entry(n, FALSE, f[n]) : n \in {n \in RunFiles : f[n] # 0}} \cup extra :
        f \in [RunFiles -> 0..MaxTime],
        extra \in SUBSET {Entry(TmpName, FALSE, 1), Entry(OtherName, FALSE, 1),
                          Entry(DirName, TRUE, 1)}}

\* RotateStates, the loop over the directory entries: the files considered
\* for deletion.
candidates(entries, currentFile) ==
    {e \in entries :
        /\ ~e.isDir
        /\ ~(~HasSuffix(e.name, ".json") \/ HasSuffix(e.name, ".tmp"))
        /\ e.name # currentFile}

\* Variant of keepOthers: the current run takes no slot of the limit.
keepAll(limit) == limit

\* keepOthers := max(limit-1, 0)
keepOthers(limit) == IF limit - 1 > 0 THEN limit - 1 ELSE 0

\* What sort.Slice may leave: the candidates newest first, files of equal
\* modification time in any order.
NewestFirst(S) ==
    {o \in Orders(S) : \A i, j \in DOMAIN o : i < j => o[i].modTime >= o[j].modTime}

\* RotateStates with the order its sort produced: the directory it leaves.
\* The directory is read and the files are removed without error.
RotateStates(in, order) ==
    IF in.limit = 0 THEN in.dir
    ELSE IF Len(order) <= keepOthers(in.limit) THEN in.dir
    ELSE in.dir \ {order[i] : i \in (keepOthers(in.limit) + 1)..Len(order)}

\* RotateStates has not been called.
RotateIdle ==
    /\ rotIn = [limit |-> 0, dir |-> {}]
    /\ rotOut = [called |-> FALSE, dir |-> {}]

\* runPipeline calls RotateStates for the current run.
Rotate ==
    /\ ~rotOut.called
    /\ \E order \in NewestFirst(candidates(rotIn.dir, CurrentFile)) :
          rotOut' = [called |-> TRUE, dir |-> RotateStates(rotIn, order)]
    /\ UNCHANGED <<rotIn, lockVars, runnerVars, saveVars, graphVars, resolveVars>>

\* ------------------------------------------------- stateMu and the sub-runs

\* The threads of one Run while a sub-runs step executes: its worker, the
\* goroutines of its two sub-runs, the worker of another step, and Run's
\* dispatch loop cascade-failing a step.
SubGoroutines == {"sub1", "sub2"}
StateWriters == {"other", "run"}
Threads == {"worker"} \cup SubGoroutines \cup StateWriters

Free_ == "free"

\* Nothing runs.
LockIdle ==
    /\ lpc = [t \in Threads |-> "off"]
    /\ stateMu = Free_
    /\ subMu = Free_

\* runParallelSubRuns is entered while another worker and the dispatch loop
\* are about to record a step state.
LockInit ==
    /\ lpc = [t \in Threads |->
                 IF t = "worker" THEN "begin"
                 ELSE IF t \in SubGoroutines THEN "none" ELSE "exec"]
    /\ stateMu = Free_
    /\ subMu = Free_

\* r.stateMu.Lock()
LockStateMu(t) == stateMu = Free_ /\ stateMu' = t

\* r.stateMu.Unlock()
UnlockStateMu(t) == stateMu = t /\ stateMu' = Free_

\* mu.Lock(), the mutex local to runParallelSubRuns
LockSubMu(t) == subMu = Free_ /\ subMu' = t /\ UNCHANGED stateMu

\* mu.Unlock(), deferred in the sub-run's goroutine
UnlockSubMu(t) == subMu = t /\ subMu' = Free_ /\ UNCHANGED stateMu

\* runParallelSubRuns: the step is marked running, its sub_steps map is made
\* and stored in the run state, and the state is saved, all under stateMu.
WorkerInit ==
    /\ UNCHANGED <<runnerVars, saveVars, graphVars, resolveVars, rotateVars>>
    /\ \/ /\ lpc["worker"] = "begin"
          /\ LockStateMu("worker")
          /\ lpc' = [lpc EXCEPT !["worker"] = "init"]
          /\ UNCHANGED subMu
       \/ /\ lpc["worker"] = "init"
          /\ UnlockStateMu("worker")
          /\ lpc' = [lpc EXCEPT !["worker"] = "spawn"]
          /\ UNCHANGED subMu

\* runParallelSubRuns: the goroutine of the next sub-run is started; after
\* the last one the worker waits.
WorkerSpawn(g) ==
    /\ UNCHANGED <<runnerVars, saveVars, graphVars, resolveVars, rotateVars>>
    /\ lpc["worker"] = "spawn"
    /\ lpc[g] = "none"
    /\ g = "sub2" => lpc["sub1"] # "none"
    /\ lpc' = [lpc EXCEPT ![g] = "exec",
                          !["worker"] = IF g = "sub2" THEN "wait" ELSE "spawn"]
    /\ UNCHANGED <<stateMu, subMu>>

\* A sub-run's goroutine: its child exits, it takes the local mutex and
\* writes its entry of ss.SubSteps, the map stored in the run state; the
\* mutex is released when the goroutine returns.
SubRecord(g) ==
    /\ UNCHANGED <<runnerVars, saveVars, graphVars, resolveVars, rotateVars>>
    /\ \/ /\ lpc[g] = "exec"
          /\ LockSubMu(g)
          /\ lpc' = [lpc EXCEPT ![g] = "record"]
       \/ /\ lpc[g] = "record"
          /\ UnlockSubMu(g)
          /\ lpc' = [lpc EXCEPT ![g] = "done"]

\* runParallelSubRuns after wg.Wait: setStepState stores the step state and
\* saves the run state under stateMu.
WorkerFinish ==
    /\ UNCHANGED <<runnerVars, saveVars, graphVars, resolveVars, rotateVars>>
    /\ \/ /\ lpc["worker"] = "wait"
          /\ \A g \in SubGoroutines : lpc[g] = "done"
          /\ LockStateMu("worker")
          /\ lpc' = [lpc EXCEPT !["worker"] = "final"]
          /\ UNCHANGED subMu
       \/ /\ lpc["worker"] = "final"
          /\ UnlockStateMu("worker")
          /\ lpc' = [lpc EXCEPT !["worker"] = "done"]
          /\ UNCHANGED subMu

\* setStepState in another worker, or cascadeFail in the dispatch loop: the
\* step's slot is written and the whole run state, the sub_steps maps
\* included, is serialized and saved under stateMu.
WriteAndSave(t) ==
    /\ UNCHANGED <<runnerVars, saveVars, graphVars, resolveVars, rotateVars>>
    /\ \/ /\ lpc[t] = "exec"
          /\ LockStateMu(t)
          /\ lpc' = [lpc EXCEPT ![t] = "save"]
          /\ UNCHANGED subMu
       \/ /\ lpc[t] = "save"
          /\ UnlockStateMu(t)
          /\ lpc' = [lpc EXCEPT ![t] = "done"]
          /\ UNCHANGED subMu

\* ------------------------------------------------------------ specification

Init == RunnerInit /\ SaveIdle /\ GraphIdle /\ ResolveIdle /\ RotateIdle /\ LockIdle

Next ==
    \/ \E resume \in BOOLEAN : StartRun(resume)
    \/ \E s \in StepIds : Acquire(s)
    \/ \E s \in StepIds : StartStep(s)
    \/ \E s \in StepIds, ok \in BOOLEAN, out \in Outputs : ExitSingle(s, ok, out)
    \/ \E s \in StepIds, k \in SubIds, ok \in BOOLEAN, out \in Outputs :
          ExitChild(s, k, ok, out)
    \/ \E s \in StepIds : FinishPar(s)
    \/ Receive
    \/ Finalize
    \/ \E ok \in BOOLEAN : InteractiveExit(ok)
    \/ Tick

Spec == Init /\ [][Next]_vars

\* Goroutines, the dispatch loop and child processes all make progress: every
\* step of the run that stays enabled is eventually taken.
FairSpec == Spec /\ WF_vars(Next)

\* Runs of two pipelines without an interactive step, with interrupts.
SignalInit == Init /\ pipeline \in {PipeCascade, PipeFan}

SignalNext ==
    \/ \E resume \in BOOLEAN : StartRun(resume)
    \/ \E s \in StepIds : Acquire(s)
    \/ \E s \in StepIds : StartStep(s)
    \/ \E s \in StepIds, ok \in BOOLEAN, out \in Outputs : ExitSingle(s, ok, out)
    \/ \E s \in StepIds, k \in SubIds, ok \in BOOLEAN, out \in Outputs :
          ExitChild(s, k, ok, out)
    \/ \E s \in StepIds : FinishPar(s)
    \/ Receive
    \/ Finalize
    \/ \E group \in BOOLEAN : Interrupt(group)

SignalSpec == SignalInit /\ [][SignalNext]_vars

\* As FairSpec: whatever stays enabled is eventually done.
FairSignalSpec == SignalSpec /\ WF_vars(SignalNext)

\* state.Save and state.Load on one run's state file.
SaveInit == RunnerOff /\ SaveIdle /\ GraphIdle /\ ResolveIdle /\ RotateIdle /\ LockIdle

SaveNext ==
    \/ \E rs \in SavedStates, ok \in BOOLEAN : SaveWrite(rs, ok)
    \/ \E ok \in BOOLEAN : SaveRename(ok)

SaveSpec == SaveInit /\ [][SaveNext]_vars

\* graph.Build on one step list.
GraphInit ==
    /\ RunnerOff /\ SaveIdle /\ ResolveIdle /\ RotateIdle /\ LockIdle
    /\ stepList \in StepLists
    /\ built = NotBuilt

GraphNext == BuildGraph

GraphSpec == GraphInit /\ [][GraphNext]_vars

\* ResolveVars on one set of arguments and one host environment.
ResolveInit ==
    /\ RunnerOff /\ SaveIdle /\ GraphIdle /\ RotateIdle /\ LockIdle
    /\ varsIn \in [yaml : YamlMaps, dot : SourceMaps("d"), cli : SourceMaps("c"),
                   env : HostEnvs]
    /\ varsOut = <<>>

ResolveNext == ResolveCall

ResolveSpec == ResolveInit /\ [][ResolveNext]_vars

\* state.RotateStates on one state directory with one limit.
RotateInit ==
    /\ RunnerOff /\ SaveIdle /\ GraphIdle /\ ResolveIdle /\ LockIdle
    /\ rotIn \in [limit : 0..MaxLimit, dir : StateDirs]
    /\ rotOut = [called |-> FALSE, dir |-> {}]

RotateNext == Rotate

RotateSpec == RotateInit /\ [][RotateNext]_vars

\* The threads that touch the run state while a sub-runs step executes.
LockNext ==
    \/ WorkerInit
    \/ \E g \in SubGoroutines : WorkerSpawn(g)
    \/ \E g \in SubGoroutines : SubRecord(g)
    \/ WorkerFinish
    \/ \E t \in StateWriters : WriteAndSave(t)

LockStart ==
    RunnerOff /\ SaveIdle /\ GraphIdle /\ ResolveIdle /\ RotateIdle /\ LockInit

LockSpec == LockStart /\ [][LockNext]_vars


\* ------------------------------------------------------------------ claims

\* The steps reachable from `from` along dependency edges that stay inside `via`.
RECURSIVE Downstream(_, _)
Downstream(from, via) ==
    LET next == {d \in via : \E q \in from : q \in pipeline[d].deps}
    IN  IF next \subseteq from THEN from ELSE Downstream(from \cup next, via)

\* C1: for every DAG edge A -> B with B dispatched by the loop, a worker for B
\* exists only after the dispatch loop has received A's result, and only if
\* every predecessor of B reported success.
C1_StartAfterPredecessors ==
    \A B \in Dispatched :
        wpc[B] # "idle" => \A A \in pipeline[B].deps : A \in recvOk

\* C1 witness: a step with a predecessor is executing.
C1_Witness ==
    \E B \in Dispatched : pipeline[B].deps # {} /\ wpc[B] = "exec"

\* C2 as stated: every transitive dependent of a failed step is recorded
\* "failed" with no child spawned, and every other step that did not fail is
\* "done" when Run returns.
C2_Original ==
    LET D == Downstream(recvErr, StepIds) \ recvErr IN
    /\ \A s \in D : /\ wpc[s] = "idle"
                    /\ spawned[s] = 0
                    /\ rstate.steps[s].status = "failed"
    /\ runPc = "returned" =>
          \A s \in StepIds \ (D \cup recvErr) : rstate.steps[s].status = "done"

\* C2 amended: the same for the steps the dispatch loop handles. Every
\* non-interactive step reached from a failed step through non-interactive
\* dependents is recorded "failed", has no worker and no child; when Run
\* returns every other non-interactive step that did not fail is "done".
C2_CascadeFail ==
    LET D == Downstream(recvErr, Dispatched) \ recvErr IN
    /\ \A s \in D : /\ wpc[s] = "idle"
                    /\ spawned[s] = 0
                    /\ rstate.steps[s].status = "failed"
    /\ runPc = "returned" =>
          \A s \in Dispatched \ (D \cup recvErr) : rstate.steps[s].status = "done"

\* C2 witness: Run returned after a failure that had a dependent, while an
\* unrelated step finished "done".
C2_Witness ==
    LET D == Downstream(recvErr, Dispatched) \ recvErr IN
    /\ runPc = "returned"
    /\ D # {}
    /\ \E s \in Dispatched \ (D \cup recvErr) :
          rstate.steps[s].status = "done" /\ spawned[s] > 0


\* C3 as stated: every run that enters the dispatch loop returns.
C3_RunReturns == (runPc = "dispatch") ~> (runPc = "returned")

\* Every step of the loaded state is "done" and not sensitive.
AllDoneLoaded ==
    \A s \in StepIds : loaded[s].status = "done" /\ ~pipeline[s].sensitive

C6_SensitiveReexecuted ==
    resumed =>
        \A s \in Dispatched :
            (loaded[s].status = "done" /\ loaded[s].sensitive /\ wpc[s] = "sent")
                => spawned[s] > 0

\* C7 as stated: while a child of step B is live, the environment map holds
\* the variable of every predecessor A with a stored non-empty output and of
\* every sub-run of A that is "done" with a stored non-empty output. (The map
\* only grows and a child's snapshot is the map when it is spawned.)
C7_ChildSeesPredecessors ==
    \A B \in StepIds :
        ((\E k \in SubIds : child[B][k] = "live") \/ (B \in Interactive /\ iChild = "live"))
            => \A A \in pipeline[B].deps :
                  /\ rstate.steps[A].output # <<>> => env[EnvKey(A, 0)].has
                  /\ \A R \in Cmds(A) :
                        (/\ pipeline[A].kind = "subruns"
                         /\ rstate.steps[A].sub[R].status = "done"
                         /\ rstate.steps[A].sub[R].output # <<>>)
                            => env[EnvKey(A, R)].has

\* Live children of the steps the dispatch loop handles.
LiveChildren ==
    Cardinality({sk \in StepIds \X SubIds :
                    sk[1] \in Dispatched /\ child[sk[1]][sk[2]] = "live"})

\* C8: the live children of non-interactive steps never exceed the cap.
C8_LiveWithinCap == LiveChildren <= cap

\* C8 witness: the cap is at least 2 and that many children are live.
C8_Witness == cap >= 2 /\ LiveChildren = cap

\* C9 as stated: with a cap of 1 at most one step executes at a time, a step
\* executes only after its predecessors succeeded, and every run returns.
C9_Linearized ==
    /\ [](cap = 1 =>
            /\ Cardinality({s \in Dispatched : wpc[s] = "exec"}) <= 1
            /\ \A s \in Dispatched :
                  wpc[s] = "exec" => pipeline[s].deps \subseteq recvOk)
    /\ ((cap = 1 /\ runPc = "dispatch") ~> (runPc = "returned"))

\* C10 as stated: once a failing result was received, no worker is started.
C10_Original == startedAfterFail = {}

\* C10 amended: once a failing result was received, a worker is started only
\* for a step that is not marked failed and whose predecessors all succeeded;
\* an iteration of the dispatch loop leaves every started worker, its slots
\* and its children as they are.
C10_AfterFailure ==
    [][(runPc = "dispatch" /\ firstErr') =>
          \A s \in StepIds :
              /\ (wpc[s] = "idle" /\ wpc'[s] # "idle")
                    => s \notin failedSet' /\ pipeline[s].deps \subseteq recvOk'
              /\ (completed' # completed /\ wpc[s] \in {"acquire", "exec"})
                    => wpc'[s] = wpc[s] /\ child'[s] = child[s] /\ held'[s] = held[s]
      ]_vars

\* C10 witness: a worker was started after a failure and its step executed.
C10_Witness ==
    \E s \in startedAfterFail : how[s] = "ran" /\ recvErr # {}

\* The steps whose execution returned an error in this run: they were
\* executed and are recorded "failed".
ErroredSteps ==
    {s \in StepIds : how[s] = "ran" /\ rstate.steps[s].status = "failed"}

EntryValidNow(s) ==
    /\ cache[s].exists
    /\ ~cache[s].expiresAt.has \/ now < cache[s].expiresAt.at

\* C12 as stated: a cached step whose stored status is not "done" and whose
\* entry was valid when the step became ready spawns no child.
C12_Original ==
    \A s \in Dispatched :
        (s \in readyValid /\ loaded[s].status # "done") => spawned[s] = 0

\* C12 amended: when runStep decides about a cached non-interactive step whose
\* status is not "done", a cache entry that is valid at that moment makes it
\* a hit: no child, state "done" with exit code 0, and the non-empty outputs
\* of a non-sensitive entry published; an entry that is missing or expired at
\* that moment makes the step execute.
C12_CacheHit ==
    [][\A s \in Dispatched :
          (how[s] = "" /\ how'[s] # "" /\ pipeline[s].cached
              /\ rstate.steps[s].status # "done")
          => IF EntryValidNow(s)
             THEN /\ how'[s] = "cached"
                  /\ spawned'[s] = 0
                  /\ rstate'.steps[s].status = "done"
                  /\ rstate'.steps[s].exit = 0
                  /\ ~cache[s].sensitive =>
                        /\ cache[s].output # <<>> =>
                              env'[EnvKey(s, 0)] = Val(TrimRight(cache[s].output))
                        /\ \A k \in SubIds :
                              (/\ cache[s].sub[k].has
                               /\ ~cache[s].sub[k].sensitive
                               /\ cache[s].sub[k].output # <<>>)
                              => env'[EnvKey(s, k)] =
                                     Val(TrimRight(cache[s].sub[k].output))
             ELSE how'[s] = "ran"]_vars

\* C12 witness (scenario F): in a fresh run a step was satisfied from an entry
\* that carries an expires_at, its variable is published, and a sub-runs step
\* was satisfied from the cache with its sub-run variable published.
C12_Witness ==
    /\ ~resumed
    /\ \E s \in Dispatched :
          /\ how[s] = "cached"
          /\ cache[s].expiresAt.has
          /\ env[EnvKey(s, 0)].has
    /\ \E s \in Dispatched, k \in SubIds :
          /\ how[s] = "cached"
          /\ env[EnvKey(s, k)].has

\* C13: whenever the cache entry of a step is written or replaced, the step
\* has caching enabled and has just completed successfully in the current
\* run: it was executed, it is recorded "done", none of its children failed
\* and its worker sends a nil error.
C13_CacheOnlyOnSuccess ==
    [][\A s \in StepIds :
          cache'[s] # cache[s] =>
              /\ pipeline[s].cached
              /\ how[s] = "ran"
              /\ wpc[s] = "exec" /\ wpc'[s] = "sent"
              /\ rstate'.steps[s].status = "done"
              /\ \A k \in SubIds : child'[s][k] # "fail"
              /\ results' = Append(results, [id |-> s, err |-> FALSE])]_vars

\* C13 witness: in one run a cached step was executed and has its entry,
\* while another cached step was executed, failed, and has none.
C13_Witness ==
    \E s, t \in Dispatched :
        /\ how[s] = "ran" /\ wpc[s] = "sent" /\ cache[s].exists
        /\ pipeline[t].cached /\ pipeline[t].expireAfter = ""
        /\ how[t] = "ran" /\ rstate.steps[t].status = "failed"
        /\ ~cache[t].exists

\* C14 as stated: once a cached step whose expire_after does not parse has
\* succeeded, a cache entry without expires_at exists for it.
C14_InvalidExpiryStillCached ==
    \A s \in Dispatched :
        (/\ pipeline[s].cached
         /\ ParseExpiry(pipeline[s].expireAfter, now).err
         /\ how[s] = "ran"
         /\ wpc[s] = "sent"
         /\ rstate.steps[s].status = "done")
        => cache[s].exists /\ ~cache[s].expiresAt.has

\* C15 as stated: the cache entry of a step that is sensitive and cached has
\* sensitive=true, exit code 0 and no output; when such a step is satisfied
\* from the cache no child is spawned and PIPE_<S> is not in the environment
\* map.
C15_SensitiveCached ==
    \A s \in Dispatched :
        (pipeline[s].sensitive /\ pipeline[s].cached) =>
            /\ cache[s].exists =>
                  /\ cache[s].sensitive
                  /\ cache[s].exitCode = 0
                  /\ cache[s].output = <<>>
            /\ how[s] = "cached" =>
                  /\ spawned[s] = 0
                  /\ ~env[EnvKey(s, 0)].has

\* C16 as stated: in every state the run state (in memory and on disk) and
\* the cache hold no output for a sensitive step, for any sub-run of a
\* sensitive step, or for a sensitive sub-run.
C16_NoSensitiveOutputStored ==
    \A s \in StepIds :
        /\ pipeline[s].sensitive =>
              /\ rstate.steps[s].output = <<>>
              /\ disk.steps[s].output = <<>>
              /\ cache[s].output = <<>>
        /\ \A k \in SubIds :
              (pipeline[s].sensitive \/ k \in pipeline[s].subSens) =>
                  /\ rstate.steps[s].sub[k].output = <<>>
                  /\ disk.steps[s].sub[k].output = <<>>
                  /\ cache[s].sub[k].output = <<>>

\* v is `out` with its trailing newlines removed.
IsTrimOf(v, out) ==
    /\ Len(v) <= Len(out)
    /\ SubSeq(out, 1, Len(v)) = v
    /\ v = <<>> \/ v[Len(v)] # NL
    /\ \A i \in (Len(v) + 1)..Len(out) : out[i] = NL

\* Step s is a sensitive single step that succeeded in the current run.
SensitiveSucceeded(s) ==
    /\ s \in Dispatched
    /\ pipeline[s].kind = "single"
    /\ pipeline[s].sensitive
    /\ how[s] = "ran"
    /\ rstate.steps[s].status = "done"

\* C17: once a sensitive single step has succeeded in the current run,
\* PIPE_<S> is in the environment map with its trimmed stdout and the state
\* holds no output for it, in memory and on disk; a dependent of a sensitive
\* single step that was executed in this run has a worker or a live child
\* only after that.
C17_SensitivePublished ==
    \A s \in StepIds :
        /\ SensitiveSucceeded(s) =>
              /\ env[EnvKey(s, 0)].has
              /\ IsTrimOf(env[EnvKey(s, 0)].val, captured[s])
              /\ rstate.steps[s].output = <<>>
              /\ disk.steps[s].output = <<>>
        /\ \A d \in Dependents(s) :
              (/\ s \in Dispatched /\ pipeline[s].kind = "single"
               /\ pipeline[s].sensitive /\ how[s] = "ran"
               /\ wpc[d] # "idle" \/ how[d] # "")
              => SensitiveSucceeded(s)

\* C17 witness (scenario E): the child of a dependent is live while the
\* sensitive step it depends on has published a non-empty value and stored
\* no output.
C17_Witness ==
    \E s \in StepIds, d \in StepIds :
        /\ SensitiveSucceeded(s)
        /\ s \in pipeline[d].deps
        /\ child[d][1] = "live"
        /\ captured[s] = <<"x", NL>>
        /\ env[EnvKey(s, 0)] = Val(<<"x">>)
        /\ rstate.steps[s].output = <<>>

RunSucceeded == runPc = "returned" /\ ~retErr

\* C19 as stated: after a successful Run, for every non-sensitive single
\* step the environment map contains PIPE_<S> and its value is the stored
\* output without its trailing newlines.
C19_Original ==
    RunSucceeded =>
        \A s \in StepIds :
            (pipeline[s].kind = "single" /\ ~pipeline[s].sensitive) =>
                /\ env[EnvKey(s, 0)].has
                /\ IsTrimOf(env[EnvKey(s, 0)].val, rstate.steps[s].output)

\* C19 amended: after a successful Run, for every non-sensitive single step,
\* PIPE_<S> is in the environment map whenever the step was executed by
\* runSingle in this run or its stored output is not empty, and its value is
\* then the stored output without its trailing newlines; when PIPE_<S> is
\* absent the stored output is empty.
C19_EnvMatchesOutput ==
    RunSucceeded =>
        \A s \in StepIds :
            (pipeline[s].kind = "single" /\ ~pipeline[s].sensitive) =>
                LET e == env[EnvKey(s, 0)]
                    output == rstate.steps[s].output
                IN  /\ e.has => IsTrimOf(e.val, output)
                    /\ ~e.has => output = <<>>
                    /\ (s \in Dispatched /\ how[s] = "ran") => e.has

\* C19 witness: a resumed run returned success; one non-sensitive single step
\* was skipped with its variable restored from a stored output, another was
\* skipped with an empty stored output and has no variable.
C19_Witness ==
    /\ RunSucceeded
    /\ resumed
    /\ \E s, t \in Dispatched :
          /\ pipeline[s].kind = "single" /\ ~pipeline[s].sensitive
          /\ pipeline[t].kind = "single" /\ ~pipeline[t].sensitive
          /\ how[s] = "skipped" /\ how[t] = "skipped"
          /\ rstate.steps[s].output = <<"x", NL>>
          /\ env[EnvKey(s, 0)] = Val(<<"x">>)
          /\ rstate.steps[t].output = <<>>
          /\ ~env[EnvKey(t, 0)].has

\* C20: in a fresh run, a strings or sub-runs step that is executed starts
\* each of its children once and none is left unstarted; its result is sent
\* only when no child is live, and it is then recorded "failed" if some child
\* exited with an error and "done" otherwise; a sub-run that succeeded has
\* PIPE_<S>_<R> in the environment map, holding the trimmed output the state
\* stores for a sub-run that is not sensitive.
C20_ParallelChildren ==
    ~resumed =>
        \A s \in Dispatched :
            (pipeline[s].kind # "single" /\ how[s] = "ran") =>
                /\ spawned[s] = pipeline[s].n
                /\ \A k \in Cmds(s) : child[s][k] \in {"live", "ok", "fail"}
                /\ failures[s] = Cardinality({k \in Cmds(s) : child[s][k] = "fail"})
                /\ wpc[s] = "sent" =>
                      /\ Live(s) = {}
                      /\ rstate.steps[s].status =
                            (IF failures[s] > 0 THEN "failed" ELSE "done")
                /\ pipeline[s].kind = "subruns" =>
                      \A k \in Cmds(s) :
                          child[s][k] = "ok" =>
                              /\ env[EnvKey(s, k)].has
                              /\ k \notin pipeline[s].subSens =>
                                    IsTrimOf(env[EnvKey(s, k)].val,
                                             rstate.steps[s].sub[k].output)

\* C20 witness: in a fresh run a sub-runs step sent its result after one
\* sub-run failed and the other succeeded and published its variable.
C20_Witness ==
    /\ ~resumed
    /\ \E s \in Dispatched :
          /\ pipeline[s].kind = "subruns"
          /\ wpc[s] = "sent"
          /\ child[s] = <<"fail", "ok">>
          /\ rstate.steps[s].status = "failed"
          /\ env[EnvKey(s, 2)].has


\* A reader of <run-id>.json sees the complete content the file had when the
\* current or last Save was entered, or the complete document of the state
\* being saved.
FileAllOrNothing == stateFile \in {before, Whole(Marshal(saving))} \ {Partial}

\* After a successful Save no .tmp file remains.
NoTmpAfterSave == (savePc = "idle" /\ saveErr = "nil") => tmpFile = Absent

\* After a successful Save, Load returns a state equal to the one saved.
LoadReturnsSaved ==
    (savePc = "idle" /\ saveErr = "nil") => Load = [err |-> "nil", rs |-> saving]

\* C21: state.Save is all-or-nothing for <run-id>.json along any sequence of
\* saves, failed ones included: a reader sees the complete previous or the
\* complete new content; after a successful Save no .tmp file remains and
\* Load returns a state equal to the one saved.
C21_SaveAllOrNothing == FileAllOrNothing /\ NoTmpAfterSave /\ LoadReturnsSaved


\* The ids of the step list.
ListIds == {stepList[i].id : i \in 1..Len(stepList)}

\* The elements of a sequence, and whether it lists each of them once.
Range(seq) == {seq[i] : i \in 1..Len(seq)}
NoRepeat(seq) == \A i, j \in 1..Len(seq) : seq[i] = seq[j] => i = j

\* The env names step number i produces: its own and one per sub-run.
Produces(i) ==
    {envKey(<<stepList[i].id>>)}
        \cup {envKey(<<stepList[i].id, sub>>) : sub \in Range(stepList[i].run.subs)}

\* The env names the commands of step number i reference.
Refs(i) ==
    {<<"PIPE_">> \o name :
        name \in UNION {Range(cmd) : cmd \in Range(stepList[i].run.cmds)}}

\* The map env-name -> producing step id holds, for a name, the last step
\* of the list that produces it.
Resolves(ref, i) ==
    /\ ref \in Produces(i)
    /\ \A j \in 1..Len(stepList) : ref \in Produces(j) => j <= i

\* P -> S for each depends_on entry P of S that names an existing step.
ExplicitEdges ==
    {e \in ListIds \X ListIds :
        \E i \in 1..Len(stepList) :
            stepList[i].id = e[2] /\ e[1] \in Range(stepList[i].deps)}

\* P -> S for each token of S that resolves to a producing step P # S.
ImplicitEdges ==
    {e \in ListIds \X ListIds :
        /\ e[1] # e[2]
        /\ \E i, j \in 1..Len(stepList) :
              /\ stepList[i].id = e[2]
              /\ stepList[j].id = e[1]
              /\ \E ref \in Refs(i) : Resolves(ref, j)}

\* The edges a built graph holds, read from Deps and from Dependents.
DepsEdges(g) == {e \in ListIds \X ListIds : e[1] \in Range(g.Deps[e[2]])}
DependentsEdges(g) == {e \in ListIds \X ListIds : e[2] \in Range(g.Dependents[e[1]])}

\* C22: on every step list on which Build succeeds, the edges are exactly the
\* explicit edges (depends_on entries naming an existing step) and the
\* implicit edges (tokens resolving to a producing step other than the step
\* itself), each present once; InDegree counts the distinct predecessors,
\* Deps and Dependents mirror each other and Order is the input order.
C22_BuildEdges ==
    built.err = "nil" =>
        LET g == built.g
        IN  /\ DepsEdges(g) = ExplicitEdges \cup ImplicitEdges
            /\ DependentsEdges(g) = DepsEdges(g)
            /\ \A id \in ListIds :
                  /\ NoRepeat(g.Deps[id])
                  /\ NoRepeat(g.Dependents[id])
                  /\ g.InDegree[id] = Cardinality({e \in DepsEdges(g) : e[2] = id})
            /\ g.Order = [i \in 1..Len(stepList) |-> stepList[i].id]

\* Build succeeded on three steps where one edge is both explicit and
\* implicit, another step lists one id twice, and an unknown id is named.
C22_Witness ==
    /\ built.err = "nil"
    /\ Len(stepList) = 3
    /\ ExplicitEdges \cap ImplicitEdges # {}
    /\ \E i \in 1..3 : ~NoRepeat(stepList[i].deps)
    /\ \E i \in 1..3 : NoSuchId \in Range(stepList[i].deps)


\* The directed graph formed by the explicit and implicit edges.
AllEdges == ExplicitEdges \cup ImplicitEdges

\* The graph contains a cycle: some steps p[1], ..., p[n] with an edge from
\* each to the next and from the last to the first.
HasCycle ==
    LET E == AllEdges
    IN  \E n \in 1..Cardinality(ListIds) :
            \E p \in [1..n -> ListIds] :
                \A i \in 1..n : <<p[i], p[(i % n) + 1]>> \in E

\* The steps Kahn peeling never releases: the largest set of steps each of
\* which has a predecessor in the set.
Unpeeled ==
    LET E == AllEdges
    IN  UNION {T \in SUBSET ListIds :
                  \A s \in T : \E q \in T : <<q, s>> \in E}
UnpeeledInOrder ==
    LET U == Unpeeled
    IN  SelectSeq([i \in 1..Len(stepList) |-> stepList[i].id],
                  LAMBDA id : id \in U)

\* What C23 says of one call of Build.
CycleErrorIffCycle ==
    /\ built.err = "cycle" <=> HasCycle
    /\ built.err = "cycle" => built.who = UnpeeledInOrder
    /\ ~HasCycle => built.err = "nil"

\* No step lists its own id in depends_on.
NoSelfDep ==
    \A i \in 1..Len(stepList) : stepList[i].id \notin Range(stepList[i].deps)

\* C23 as stated: Build returns a cycle error exactly when the graph of
\* explicit and implicit edges has a cycle, listing the steps left with
\* positive in-degree, and succeeds on an acyclic graph.
C23_Original == built.err # "none" => CycleErrorIffCycle

\* C23: on a step list in which no step lists its own id in depends_on,
\* Build returns a cycle error exactly when the graph of explicit and
\* implicit edges has a cycle, the error lists exactly the steps left with
\* positive in-degree after Kahn peeling, and Build succeeds on an acyclic
\* graph.
C23_CycleError == (built.err # "none" /\ NoSelfDep) => CycleErrorIffCycle

\* Build returned a cycle error that lists three steps, one of which is on
\* no cycle of two steps.
C23_Witness ==
    /\ built.err = "cycle"
    /\ NoSelfDep
    /\ Len(built.who) = 3
    /\ LET E == AllEdges
       IN  \E s \in ListIds : \A q \in ListIds :
               ~(<<q, s>> \in E /\ <<s, q>> \in E)


\* Step number i references one of its own variables.
RefsOwn(i) == Refs(i) \cap Produces(i) # {}

\* The in-degree step number i has without its references to its own
\* variables: its predecessors by depends_on and by every other token.
OtherPredecessors(i) ==
    {p \in ListIds \ {stepList[i].id} :
        \/ p \in Range(stepList[i].deps)
        \/ \E j \in 1..Len(stepList) :
              /\ stepList[j].id = p
              /\ \E ref \in Refs(i) \ Produces(i) : Resolves(ref, j)}

\* C24: Build fails with a self-dependency error whenever a step lists its
\* own id in depends_on; a step whose command references its own PIPE_<S>
\* variable or one of its own sub-run variables gets no self-edge, and its
\* in-degree is what it is without that reference.
C24_SelfReference ==
    built.err # "none" =>
        /\ ~NoSelfDep => built.err = "self-dependency"
        /\ built.err = "nil" =>
              \A i \in 1..Len(stepList) :
                  RefsOwn(i) =>
                      LET id == stepList[i].id
                      IN  /\ id \notin Range(built.g.Deps[id])
                          /\ id \notin Range(built.g.Dependents[id])
                          /\ built.g.InDegree[id] = Cardinality(OtherPredecessors(i))


\* No env name is produced by two steps of the list.
NoSharedName ==
    \A i, j \in 1..Len(stepList) : Produces(i) \cap Produces(j) # {} => i = j


\* The depends_on entries that name no step of the list: step number and
\* position in its list.
UnknownRefs ==
    UNION {{<<i, k>> : k \in {k \in DOMAIN stepList[i].deps :
                                 stepList[i].deps[k] \notin ListIds}} :
              i \in 1..Len(stepList)}

\* The step list without those entries.
KnownDepsOnly ==
    [i \in 1..Len(stepList) |->
        [stepList[i] EXCEPT
            !.deps = SelectSeq(@, LAMBDA d : d \in ListIds)]]

HasUnknownDep == UnknownRefs # {}

C27_InteractiveLast ==
    \A i \in Interactive :
        /\ iChild = "live" =>
              /\ recvOk = Dispatched
              /\ recvErr = {}
              /\ failedSet = {}
              /\ ~firstErr
              /\ \A s \in Dispatched :
                    rstate.steps[s].status = "done" /\ wpc[s] \in {"idle", "sent"}
        /\ (runPc # "idle" /\ loaded[i].status = "done") =>
              iChild # "live" /\ spawned[i] = 0
        /\ wpc[i] = "idle"
        /\ held[i] = 0
        /\ \A k \in SubIds : child[i][k] = "none"

\* The interactive child is live in a resumed run in which another step was
\* re-executed.
C27_Witness ==
    /\ Interactive # {}
    /\ iChild = "live"
    /\ resumed
    /\ \E s \in Dispatched : how[s] = "ran"

\* A resumed run returned without starting the interactive child, whose
\* stored status was "done".
C27_WitnessSkipped ==
    /\ runPc = "returned"
    /\ resumed
    /\ \E i \in Interactive : loaded[i].status = "done" /\ how[i] = "skipped"


\* The values a source holds for the variable PIPE_VAR_<K>: those of its
\* keys with the env name of K.
ValuesFor(source, K) == {e[2] : e \in {e \in source : VarEnvKey(e[1]) = VarEnvKey(K)}}

\* The value the precedence chain names for the declared key K: the CLI
\* override, else the host value of PIPE_VAR_<K>, else the dot-file value,
\* else the rendered default.
Precedence(in, K) ==
    IF ValuesFor(in.cli, K) # {} THEN ValuesFor(in.cli, K)
    ELSE IF Has(in.env, VarEnvKey(K)) THEN {Get(in.env, VarEnvKey(K))}
    ELSE IF ValuesFor(in.dot, K) # {} THEN ValuesFor(in.dot, K)
    ELSE {renderVarValue(Get(in.yaml, K), in.env)}

\* No two keys of a source share an env name.
NoCollision(source) ==
    \A k, l \in Keys(source) : VarEnvKey(k) = VarEnvKey(l) => k = l

\* C28: for every declared key K, PIPE_VAR_<K> is the CLI override for K
\* if one is given, else the host environment's value of PIPE_VAR_<K> if
\* set, else the dot-file value for K if present, else the rendered
\* declared default.
C28_Precedence ==
    \A n \in DOMAIN varsOut : \A K \in Keys(varsIn.yaml) :
        /\ Has(varsOut[n].resolved, VarEnvKey(K))
        /\ Precedence(varsIn, K) = {Get(varsOut[n].resolved, VarEnvKey(K))}

\* The precedence chain holds when no source has two keys of one env name.
PrecedenceWithoutCollision ==
    (NoCollision(varsIn.yaml) /\ NoCollision(varsIn.dot) /\ NoCollision(varsIn.cli))
        => C28_Precedence

\* The number of times a warning occurs.
Count(warnings, w) == Cardinality({i \in DOMAIN warnings : warnings[i] = w})

\* The keys of a source that are not declared.
Undeclared(in, source) == {k \in Keys(source) : VarEnvKey(k) \notin Declared(in.yaml)}

\* With the escape hatch unset the resolved names are the declared ones, and
\* each undeclared key of the dot file or of the CLI gives one warning.
ContractHolds ==
    ~unsafeVars(varsIn.env) =>
        \A n \in DOMAIN varsOut :
            /\ Keys(varsOut[n].resolved) = Declared(varsIn.yaml)
            /\ \A k \in VarKeys :
                /\ Count(varsOut[n].warnings, <<"dot_file">> \o k)
                       = IF k \in Undeclared(varsIn, varsIn.dot) THEN 1 ELSE 0
                /\ Count(varsOut[n].warnings, <<"CLI">> \o k)
                       = IF k \in Undeclared(varsIn, varsIn.cli) THEN 1 ELSE 0
            /\ Len(varsOut[n].warnings)
                   = Cardinality(Undeclared(varsIn, varsIn.dot))
                         + Cardinality(Undeclared(varsIn, varsIn.cli))

\* The arguments with a host environment that sets no PIPE_VAR_* name.
WithoutHostVars(in) ==
    [in EXCEPT !.env = {e \in @ : e[1] \in {HostName, UnsafeName}}]

\* The host environment changes the value of declared names only: an
\* undeclared name has a value it can have without the host's PIPE_VAR_*.
HostChangesDeclaredOnly ==
    \A n \in DOMAIN varsOut :
        \A e \in varsOut[n].resolved :
            e[1] \notin Declared(varsIn.yaml) =>
                \E r \in ResolveVars(WithoutHostVars(varsIn)) : e \in r.resolved

\* C29: with PIPE_EXPERIMENTAL_UNSAFE_VARS unset the key set of the result
\* is the set of env names of declared keys and each undeclared key of the
\* dot file or the CLI overrides gives exactly one warning and no entry; in
\* every mode the host environment changes the value of declared keys only.
C29_DeclaredOnly == ContractHolds /\ HostChangesDeclaredOnly

\* C30: two invocations of ResolveVars on the same declared defaults,
\* dot-file map, CLI overrides and host environment return the same
\* resolved map.
C30_Deterministic ==
    \A i, j \in DOMAIN varsOut : varsOut[i].resolved = varsOut[j].resolved

\* ResolveVars is deterministic when no source has two keys of one env name.
DeterministicWithoutCollision ==
    (NoCollision(varsIn.yaml) /\ NoCollision(varsIn.dot) /\ NoCollision(varsIn.cli))
        => C30_Deterministic

\* C35: once a step has reached status "done" in a run, by execution or by
\* a cache hit, state.steps[S].sensitive is the step's sensitive setting.
C35_SensitiveEchoed ==
    \A s \in StepIds :
        (how[s] \in {"ran", "cached"} /\ rstate.steps[s].status = "done") =>
            rstate.steps[s].sensitive = pipeline[s].sensitive

\* The steps marked failed by cascadeFail, not by a result of their own.
CascadeFailed == failedSet \ recvErr

\* Every count of `completed` belongs to one step: a received result or a
\* cascade-fail marking, never both, and a marked step has no worker.
CountedOnce ==
    /\ recvOk \cap recvErr = {}
    /\ recvOk \cap failedSet = {}
    /\ completed = Cardinality(recvOk) + Cardinality(recvErr) + Cardinality(CascadeFailed)
    /\ completed <= Total
    /\ (recvOk \cup failedSet) \cap Interactive = {}
    /\ \A s \in CascadeFailed : wpc[s] = "idle" /\ how[s] = "" /\ spawned[s] = 0
    /\ \A s \in recvOk \cup recvErr : wpc[s] = "sent"

\* Within one Run a worker is started only for a step that had none.
HandedOnce ==
    \A s \in StepIds :
        (runNo' = runNo /\ wpc'[s] = "acquire" /\ wpc[s] # "acquire") =>
            (wpc[s] = "idle" /\ s \notin Interactive)

\* C36: in one Run each non-interactive step is handed to at most one worker
\* and is counted in `completed` exactly once, by its own result or by one
\* cascade-fail marking and never both; completed never exceeds total and no
\* step is both executed and cascade-failed.
C36_CountedOnce == [][HandedOnce /\ CountedOnce']_vars

\* A run whose loop ended with a received success, a received failure and a
\* cascade-failed step.
C36_Witness ==
    /\ runPc = "dispatch"
    /\ completed = Total
    /\ recvOk # {} /\ recvErr # {} /\ CascadeFailed # {}

\* Every dispatched step's fan-out is at most the cap.
FanOutWithinCap == \A s \in Dispatched : stepProcessCount(s) <= cap

\* The workers that hold semaphore slots.
Holders == {s \in StepIds : held[s] > 0}

\* Every slot is taken and every worker that holds one is still acquiring:
\* none of them can proceed and none will release.
SlotDeadlock ==
    /\ runPc = "dispatch"
    /\ Free = 0
    /\ \A s \in Holders : wpc[s] = "acquire" /\ held[s] < stepProcessCount(s)

\* C37: when every step's fan-out is at most the cap, no state has every
\* worker that holds slots blocked acquiring more.
C37_NoSlotDeadlock == FanOutWithinCap => ~SlotDeadlock

\* C40: in every persisted run state, also those saved while a resumed run
\* is in progress, finished_at is set exactly when status is "done" or
\* "failed".
C40_FinishedIffFinal == disk.finished <=> disk.status \in {"done", "failed"}

\* C34: every mutation of the run state (a status change, an attempt of a
\* single step, a sub-run finishing) is saved before the next one, so the
\* state file holds the in-memory state once the mutation is over.
C34_SavedAfterMutation == [][rstate' # rstate => disk' = rstate']_vars

\* Every dispatched step needs one semaphore slot, so no worker waits for a
\* second one.
OneSlotEach == \A s \in Dispatched : stepProcessCount(s) = 1

\* Some step depends on the interactive step.
DependsOnInteractive == \E s \in Dispatched : pipeline[s].deps \cap Interactive # {}

\* Step s, counted in `total`, has been handed to a worker or cascade-failed.
Settled(s) == wpc[s] # "idle" \/ s \in failedSet

\* C38: in a pipeline with an interactive step, also when another step
\* depends on it, every step counted in `total` is eventually dispatched or
\* cascade-failed.
C38_AllSettled ==
    \A s \in StepIds :
        (runPc = "dispatch" /\ Interactive # {} /\ OneSlotEach /\ s \in Dispatched)
            ~> Settled(s)

\* The same, for pipelines in which no step depends on the interactive one.
SettledWithoutDependent ==
    \A s \in StepIds :
        (/\ runPc = "dispatch" /\ Interactive # {} /\ OneSlotEach /\ s \in Dispatched
         /\ ~DependsOnInteractive)
            ~> Settled(s)

\* The .json state files of a directory.
JsonFiles(dir) == {e \in dir : ~e.isDir /\ HasSuffix(e.name, ".json")}

\* The state files of other runs than the current one.
OtherRuns(dir) == {e \in JsonFiles(dir) : e.name # CurrentFile}

\* What RotateStates removed.
Deleted == rotIn.dir \ rotOut.dir

\* The smaller of two numbers.
Min(a, b) == IF a < b THEN a ELSE b

Accessing(t) ==
    \/ t = "worker" /\ lpc[t] \in {"init", "final"}
    \/ t \in SubGoroutines /\ lpc[t] = "record"
    \/ t \in StateWriters /\ lpc[t] = "save"

\* Thread t is serializing the run state for state.Save.
Serializing(t) == t \notin SubGoroutines /\ Accessing(t)

\* Every access to the run state is made by the holder of stateMu.
AccessUnderStateMu == \A t \in Threads : Accessing(t) => stateMu = t

\* No thread writes a sub_steps entry while another serializes the state.
NoWriteDuringSave ==
    \A g \in SubGoroutines, t \in Threads :
        ~(lpc[g] = "record" /\ Serializing(t))

\* C33: every read and write of the RunState data and every state.Save
\* happens while holding stateMu, and no thread writes a step's sub_steps
\* entry while another thread is serializing the state for a save.
C33_StateMuGuards == AccessUnderStateMu /\ NoWriteDuringSave

\* The writers that go through stateMu exclude one another.
LockedWritersExclusive ==
    \A t, u \in Threads : (Serializing(t) /\ Serializing(u)) => t = u

\* An interrupt arrived while non-interactive steps were in flight.
Interrupted == runPc = "killed"

\* C32: after an interrupt that arrives while non-interactive steps are in
\* flight every live child has been signalled and the persisted run state
\* eventually records status "failed".
C32_InterruptRecorded ==
    Interrupted ~> (disk.status = "failed" /\ \A s \in StepIds : Live(s) = {})

\* After an interrupt no worker is started and no step begins.
NothingStartsAfterInterrupt ==
    [][Interrupted => (wpc' = wpc /\ spawned' = spawned)]_vars


\* The producers of the list: a step, or a sub-run of a step, as the parts
\* its env name is built from.
Producers ==
    {<<stepList[i].id>> : i \in 1..Len(stepList)}
        \cup UNION {{<<stepList[i].id, sub>> : sub \in Range(stepList[i].run.subs)} :
                        i \in 1..Len(stepList)}

\* C39: in a list whose step ids are unique (and sub-run ids unique within
\* their step), two distinct producers -- steps or sub-runs -- never have the
\* same env name, so no two of them write the same entry of the environment
\* map and a $PIPE_X reference has one producing step.
C39_DistinctEnvNames ==
    built.err = "nil" =>
        \A p, q \in Producers : envKey(p) = envKey(q) => p = q

====
